---- MODULE Spec2Model ----
(***************************************************************************)
(* Limit order book reconstruction from a NASDAQ ITCH 5.0 feed            *)
(* (suhasghorp/nasdaq-itch-orderbook).                                     *)
(*                                                                         *)
(* The module models                                                       *)
(*   - the byte readers and the message classifier,                        *)
(*   - the order book engine (orderbook.rs): handle_message and the eight  *)
(*     handlers, add_order, write_orderbook and its helpers,               *)
(*   - the feed walker (parser.rs): process_itch_file,                     *)
(*   - the broadcast server (websocket.rs).                                *)
(*                                                                         *)
(* Five specifications share these definitions:                            *)
(*   Spec      the engine as an object: from OrderBook::new, any sequence  *)
(*             of handle_message calls with payloads drawn from Feed sets; *)
(*   SpecWalk  main: OrderBook::new, then process_itch_file over a byte    *)
(*             buffer drawn from a bounded set, then finalize, with the    *)
(*             output file accepting every write or refusing one;          *)
(*   SpecFlush main over buffers long enough to pass the periodic flush    *)
(*             of the output, with or without an I/O failure;              *)
(*   SpecDepth the engine started from books with more levels than a row   *)
(*             shows;                                                      *)
(*   SpecServe the broadcast server (websocket.rs): the CSV reader thread, *)
(*             the broadcast channel and the connection handlers.          *)
(*                                                                         *)
(* Payloads are byte sequences in the wire layout; the handlers decode     *)
(* them at the offsets the source uses.  Rust offsets are 0-based, TLA+    *)
(* sequences 1-based: byte `off` of a slice d is d[off + 1].               *)
(***************************************************************************)
EXTENDS Integers, Sequences, FiniteSets, TLC

(***************************************************************************)
(* Bounds and program constants                                            *)
(***************************************************************************)

\* Width in bits of the shares / level-volume word.  The source uses u32;
\* the word is scaled down so that its largest value, and sums that exceed
\* it, stay inside the integers the model checker can represent.  All
\* arithmetic on shares and volumes is done at this width.
ShareBits == 4

\* Number of handle_message calls explored by Spec.
MaxMessages == 3

\* Number of frames in the buffers explored by SpecWalk.
MaxFrames == 3

MAX_BOOK_DEPTH == 10

MSG_HEADER_SIZE == 3

U32Modulus == 2 ^ ShareBits

U32Max == U32Modulus - 1

\* ASCII codes of the bytes the program compares against.
Ch(c) ==
    CASE c = "A" -> 65 [] c = "B" -> 66 [] c = "C" -> 67 [] c = "D" -> 68
      [] c = "E" -> 69 [] c = "F" -> 70 [] c = "H" -> 72 [] c = "I" -> 73
      [] c = "J" -> 74 [] c = "K" -> 75 [] c = "L" -> 76 [] c = "N" -> 78
      [] c = "O" -> 79 [] c = "P" -> 80 [] c = "Q" -> 81 [] c = "R" -> 82
      [] c = "S" -> 83 [] c = "T" -> 84 [] c = "U" -> 85 [] c = "V" -> 86
      [] c = "W" -> 87 [] c = "X" -> 88 [] c = "Y" -> 89 [] c = "h" -> 104
      [] c = "b" -> 98 [] c = " " -> 32 [] c = "Z" -> 90

(***************************************************************************)
(* utils.rs                                                                *)
(***************************************************************************)

Min2(a, b) == IF a <= b THEN a ELSE b

\* pad_stock_symbol: the first (at most 8) bytes of the symbol, right-padded
\* with spaces to 8 bytes.
pad_stock_symbol(bytes) ==
    [i \in 1..8 |-> IF i <= Min2(Len(bytes), 8) THEN bytes[i] ELSE Ch(" ")]

\* The engine's configured symbol: "INTC" as main passes it to OrderBook::new.
symbol == pad_stock_symbol(<<Ch("I"), Ch("N"), Ch("T"), Ch("C")>>)

(***************************************************************************)
(* Byte readers (orderbook.rs, parser.rs)                                  *)
(***************************************************************************)

\* data[offset .. offset + n] is inside the slice (Rust's bounds check).
InRange(data, offset, n) == offset + n <= Len(data)

\* u16::from_be_bytes of the two bytes at offset.
read_u16_be(data, offset) == data[offset + 1] * 256 + data[offset + 2]

\* u32::from_be_bytes of the four bytes at offset.
read_u32_be(data, offset) ==
    ((data[offset + 1] * 256 + data[offset + 2]) * 256 + data[offset + 3]) * 256
        + data[offset + 4]

\* The loop of read_order_ref_be, unrolled: result <<= 8; result |= byte,
\* for the eight bytes at offset.
read_order_ref_be(data, offset) ==
    ((((((data[offset + 1] * 256 + data[offset + 2]) * 256
        + data[offset + 3]) * 256 + data[offset + 4]) * 256
        + data[offset + 5]) * 256 + data[offset + 6]) * 256
        + data[offset + 7]) * 256 + data[offset + 8]

\* The six bytes at offset, big-endian, zero-extended to u64.
read_timestamp_be(data, offset) ==
    ((((data[offset + 1] * 256 + data[offset + 2]) * 256
        + data[offset + 3]) * 256 + data[offset + 4]) * 256
        + data[offset + 5]) * 256 + data[offset + 6]

\* A symbol reader that takes the four ticker bytes and pads them.
read_stock_ticker(data, offset) ==
    pad_stock_symbol(SubSeq(data, offset + 1, offset + 4))

read_stock(data, offset) == [i \in 1..8 |-> data[offset + i]]

(***************************************************************************)
(* message_types.rs, Side                                                  *)
(***************************************************************************)

KnownTags ==
    { Ch("S"), Ch("R"), Ch("H"), Ch("Y"), Ch("L"), Ch("V"), Ch("W"), Ch("K"),
      Ch("J"), Ch("h"), Ch("A"), Ch("F"), Ch("E"), Ch("C"), Ch("X"), Ch("D"),
      Ch("U"), Ch("P"), Ch("Q"), Ch("B"), Ch("I"), Ch("N"), Ch("O") }

\* impl From<u8> for MessageType: a known tag is its own variant, any other
\* byte is Unknown (discriminant 0).
MessageTypeFrom(byte) == IF byte \in KnownTags THEN byte ELSE 0

Unknown == 0

\* impl From<u8> for Side
\* A decoding that takes the letter in either case for Buy.
SideFromLetter(byte) ==
    IF byte = Ch("B") \/ byte = 98 THEN "Buy" ELSE "Sell"

SideFrom(byte) == IF byte = Ch("B") THEN "Buy" ELSE "Sell"

(***************************************************************************)
(* State                                                                   *)
(***************************************************************************)

VARIABLES
    buy_orders,       \* OrderBook.buy_orders: ref_number -> Order
    sell_orders,      \* OrderBook.sell_orders: ref_number -> Order
    buy_price_map,    \* OrderBook.buy_price_map: price -> volume
    sell_price_map,   \* OrderBook.sell_price_map: price -> volume
    writer,           \* the lines written to the CSV sink, in order
    last_state,       \* OrderBook.last_state
    message_count,    \* OrderBook.message_count
    update_count,     \* OrderBook.update_count
    flushed,          \* the number of lines of `writer` that an explicit
                      \* flush of the BufWriter has handed to the file
    status,           \* "running"; "panicked": the process aborted;
                      \* "failed": an I/O error was returned to main;
                      \* "returned": process_itch_file returned Ok;
                      \* "done": finalize returned Ok
    overflow_checks,  \* build profile: TRUE = arithmetic overflow panics
                      \* (debug), FALSE = it wraps (release)
    sink_fault,       \* environment: where the output file fails, if at all
    data,             \* process_itch_file: the mapped input buffer
    offset,           \* process_itch_file: the cursor
    count,            \* process_itch_file: the frames processed so far
    applied,          \* history: timestamps of the events that were applicable
                      \* (symbol matched / reference live), in input order
    reader,           \* start_csv_reader: the position of the reader thread
    csv_count,        \* start_csv_reader: `count`, the rows broadcast so far
    channel,          \* the broadcast channel: every message it stored
    sent,             \* history: every message the reader passed to tx.send
    clients           \* per connection: the state of handle_connection, the
                      \* receiver's cursor and the messages put on the socket

vars ==
    << buy_orders, sell_orders, buy_price_map, sell_price_map, writer,
       last_state, message_count, update_count, flushed, status,
       overflow_checks, sink_fault, data, offset, count, applied,
       reader, csv_count, channel, sent, clients >>

\* The variables of the broadcast server (websocket.rs).
server_vars == << reader, csv_count, channel, sent, clients >>

\* The variables of the order book run (main.rs, parser.rs, orderbook.rs).
engine_vars ==
    << buy_orders, sell_orders, buy_price_map, sell_price_map, writer,
       last_state, message_count, update_count, flushed, status,
       overflow_checks, sink_fault, data, offset, count, applied >>

\* The OrderBook object as a value: the handlers below are functions from a
\* book (and a payload) to the book after the call; `result` is "ok" when
\* the call returned Ok(()), "io_error" when it returned Err and "panic"
\* when it aborted.
Book ==
    [ buy_orders |-> buy_orders, sell_orders |-> sell_orders,
      buy_price_map |-> buy_price_map, sell_price_map |-> sell_price_map,
      writer |-> writer, last_state |-> last_state,
      message_count |-> message_count, update_count |-> update_count,
      flushed |-> flushed, result |-> "ok" ]

(***************************************************************************)
(* Map primitives (FxHashMap / BTreeMap)                                   *)
(***************************************************************************)

EmptyMap == << >>

MapInsert(m, k, v) == [x \in DOMAIN m \cup {k} |-> IF x = k THEN v ELSE m[x]]

MapRemove(m, k) == [x \in DOMAIN m \ {k} |-> m[x]]

wrapping_sub(a, b) == (a - b) % U32Modulus

\* u32::saturating_sub
saturating_sub(a, b) == IF a >= b THEN a - b ELSE 0

Panic(b) == [b EXCEPT !.result = "panic"]

(***************************************************************************)
(* Snapshot writer (orderbook.rs)                                          *)
(***************************************************************************)

Max(S) == CHOOSE x \in S : \A y \in S : y <= x

Min(S) == CHOOSE x \in S : \A y \in S : x <= y

RECURSIVE Descending(_)
\* The keys of S from highest to lowest (BTreeMap::iter().rev()).
Descending(S) ==
    IF S = {} THEN << >> ELSE << Max(S) >> \o Descending(S \ {Max(S)})

RECURSIVE Ascending(_)
\* The keys of S from lowest to highest (BTreeMap::iter()).
Ascending(S) ==
    IF S = {} THEN << >> ELSE << Min(S) >> \o Ascending(S \ {Min(S)})

Take(s, n) == SubSeq(s, 1, Min2(Len(s), n))

\* The first n bid levels taken without reversing the iterator.
get_top_bids_ascending(b, n) ==
    LET keys == Take(Ascending(DOMAIN b.buy_price_map), n)
    IN  [i \in 1..Len(keys) |->
            [price |-> keys[i], total_volume |-> b.buy_price_map[keys[i]]]]

get_top_bids(b, n) ==
    LET keys == Take(Descending(DOMAIN b.buy_price_map), n)
    IN  [i \in 1..Len(keys) |->
            [price |-> keys[i], total_volume |-> b.buy_price_map[keys[i]]]]

\* The n ask levels at the far end of the map, in ascending order.
get_top_asks_highest(b, n) ==
    LET all == Ascending(DOMAIN b.sell_price_map)
        keys == SubSeq(all, Len(all) - Min2(Len(all), n) + 1, Len(all))
    IN  [i \in 1..Len(keys) |->
            [price |-> keys[i], total_volume |-> b.sell_price_map[keys[i]]]]

get_top_asks(b, n) ==
    LET keys == Take(Ascending(DOMAIN b.sell_price_map), n)
    IN  [i \in 1..Len(keys) |->
            [price |-> keys[i], total_volume |-> b.sell_price_map[keys[i]]]]

pad_levels(levels, n) ==
    [i \in 1..(IF Len(levels) < n THEN n ELSE Len(levels)) |->
        IF i <= Len(levels) THEN levels[i]
        ELSE [price |-> 0, total_volume |-> 0]]

price_to_decimal_fast(price) == << price \div 10000, price % 10000 >>

RECURSIVE SumVolumes(_, _)
\* Iterator::sum over the total_volume of the first n levels, as an
\* unbounded integer.
SumVolumes(levels, n) ==
    IF n = 0 THEN 0 ELSE SumVolumes(levels, n - 1) + levels[n].total_volume

RECURSIVE SumOverflows(_, _)
\* Some partial sum of the u32 accumulator exceeds u32::MAX.
SumOverflows(levels, n) ==
    IF n = 0 THEN FALSE
    ELSE SumOverflows(levels, n - 1) \/ SumVolumes(levels, n) > U32Max

\* An imbalance whose difference of the sums is taken in u32 before the
\* conversion to f64.
calculate_imbalance_u32(bids, asks) ==
    LET total_bid_volume == SumVolumes(bids, Len(bids)) % U32Modulus
        total_ask_volume == SumVolumes(asks, Len(asks)) % U32Modulus
    IN  IF overflow_checks /\ (\/ SumOverflows(bids, Len(bids))
                               \/ SumOverflows(asks, Len(asks))
                               \/ total_bid_volume < total_ask_volume)
        THEN [panic |-> TRUE, num |-> 0, den |-> 1]
        ELSE IF total_bid_volume = 0 /\ total_ask_volume = 0
        THEN [panic |-> FALSE, num |-> 0, den |-> 1]
        ELSE [panic |-> FALSE,
              num |-> (total_bid_volume - total_ask_volume) % U32Modulus,
              den |-> total_bid_volume + total_ask_volume]

\* calculate_imbalance.  The two sums are u32 accumulators: on overflow the
\* build with overflow checks panics, the build without wraps.  The f64
\* result is kept as the exact fraction num / den (0.0 is 0 / 1).
calculate_imbalance(bids, asks) ==
    LET total_bid_volume == SumVolumes(bids, Len(bids)) % U32Modulus
        total_ask_volume == SumVolumes(asks, Len(asks)) % U32Modulus
    IN  IF overflow_checks /\ (SumOverflows(bids, Len(bids))
                               \/ SumOverflows(asks, Len(asks)))
        THEN [panic |-> TRUE, num |-> 0, den |-> 1]
        ELSE IF total_bid_volume = 0 /\ total_ask_volume = 0
        THEN [panic |-> FALSE, num |-> 0, den |-> 1]
        ELSE [panic |-> FALSE,
              num |-> total_bid_volume - total_ask_volume,
              den |-> total_bid_volume + total_ask_volume]

\* The odd sums best_bid + best_ask, among those the prices of the feeds
\* below give, whose binary64 quotient sum / 20000.0 lies above the decimal
\* tie ...5 of its fifth fractional digit (for the other odd sums it lies
\* below; an even sum gives no tie).
MidTiesUp ==
    { 500001, 500003, 500005, 500007, 500009, 500011, 500013, 500015,
      1000001, 1000005, 1000009, 1000013, 1000019, 1000023, 1000027,
      1000031 }

\* A mid price printed with two fractional digits.
FormatMidTwoDigits(mid_price) == (mid_price.num \div 200) * 100

\* write!("{:.4}", mid_price): the mid price as the number of 0.0001 units
\* printed, the decimal expansion of the binary64 value rounded to four
\* fractional digits.
FormatMid(mid_price) ==
    IF mid_price.num % 2 = 1 /\ mid_price.num \in MidTiesUp
    THEN mid_price.num \div 2 + 1
    ELSE mid_price.num \div 2

\* write!("{:.6}", imbalance): the imbalance as the number of 0.000001 units
\* printed, the quotient rounded to the nearest unit (with the sums of the
\* model no quotient lies at a tie).
FormatImbalance(imbalance) ==
    (2 * imbalance.num * 1000000 + imbalance.den) \div (2 * imbalance.den)

\* One CSV data line as write_orderbook formats it: the timestamp, for each
\* of the MAX_BOOK_DEPTH depths the bid price (integer part, 4-digit
\* decimal part), bid volume, ask price and ask volume, then the mid price
\* and the imbalance as printed.
FormatLine(timestamp, padded_bids, padded_asks, mid_price, imbalance) ==
    [ timestamp |-> timestamp,
      cols |-> [i \in 1..MAX_BOOK_DEPTH |->
                  [ bid_int |-> price_to_decimal_fast(padded_bids[i].price)[1],
                    bid_dec |-> price_to_decimal_fast(padded_bids[i].price)[2],
                    bid_vol |-> padded_bids[i].total_volume,
                    ask_int |-> price_to_decimal_fast(padded_asks[i].price)[1],
                    ask_dec |-> price_to_decimal_fast(padded_asks[i].price)[2],
                    ask_vol |-> padded_asks[i].total_volume ]],
      mid_price |-> FormatMid(mid_price),
      imbalance |-> FormatImbalance(imbalance) ]

None == [none |-> TRUE]

\* The output file works throughout.
NoFault == [at |-> "none", row |-> 0]

\* The ways the output file can fail.  The writer is a BufWriter: a write!
\* reaches the file, and can fail, only when the buffer has to be emptied
\* to make room, which can happen at the first write! of a row ("write":
\* nothing of the row is accepted) or at a later one ("midline": the row is
\* left incomplete); an explicit flush reaches the file always ("flush":
\* the flush after row `row`; "finalize": the flush of finalize).
SinkFaults(write_rows, flush_rows) ==
    {NoFault, [at |-> "finalize", row |-> 0]}
    \cup [at : {"write", "midline"}, row : write_rows]
    \cup [at : {"flush"}, row : flush_rows]

SinkFails(at, row) == sink_fault.at = at /\ sink_fault.row = row

\* `?` on an io::Result that is Err: the call returns the error.
IoError(b) == [b EXCEPT !.result = "io_error"]

\* The part of a line that was accepted before a later write! failed.
PartialLine(timestamp) == [timestamp |-> timestamp, partial |-> TRUE]

\* A flush after every 128th row.
FlushDueEvery128(updates) == updates % 128 = 0

\* `if self.update_count % 100 == 0`
FlushDue(updates) == updates % 100 = 0

\* The output half of write_orderbook: the write! calls of one line and the
\* periodic flush, on the book `counted` whose update_count already includes
\* this line.  Each `?` returns the I/O error at once: a refused first write
\* leaves the output as it was, a later one leaves an incomplete line.
write_line(counted, timestamp, line) ==
    LET written == [counted EXCEPT !.writer = Append(counted.writer, line)]
    IN  IF SinkFails("write", counted.update_count)
        THEN IoError(counted)
        ELSE IF SinkFails("midline", counted.update_count)
        THEN IoError([counted EXCEPT
                        !.writer = Append(counted.writer,
                                          PartialLine(timestamp))])
        ELSE IF ~FlushDue(written.update_count) THEN written
        ELSE IF SinkFails("flush", written.update_count)
        THEN IoError(written)
        ELSE [written EXCEPT !.flushed = Len(written.writer)]

\* write_orderbook: the comparison with last_state is computed and ignored
\* (the early return is commented out); every call that gets past
\* calculate_imbalance counts one update and writes one line, and every
\* hundredth line is followed by a flush.
write_orderbook(b, timestamp) ==
    LET bids == get_top_bids(b, MAX_BOOK_DEPTH)
        asks == get_top_asks(b, MAX_BOOK_DEPTH)
        mid_price ==
            [ num |-> (IF Len(bids) > 0 THEN bids[1].price ELSE 0)
                      + (IF Len(asks) > 0 THEN asks[1].price ELSE 0),
              den |-> 20000 ]
        imbalance == calculate_imbalance(bids, asks)
        new_state ==
            [ timestamp |-> timestamp, bid_levels |-> bids,
              ask_levels |-> asks, mid_price |-> mid_price,
              imbalance |-> [num |-> imbalance.num, den |-> imbalance.den] ]
        padded_bids == pad_levels(bids, MAX_BOOK_DEPTH)
        padded_asks == pad_levels(asks, MAX_BOOK_DEPTH)
    IN  IF imbalance.panic THEN Panic(b)
        ELSE write_line([b EXCEPT !.update_count = b.update_count + 1,
                                  !.last_state = new_state],
                        timestamp,
                        FormatLine(timestamp, padded_bids, padded_asks,
                                   mid_price, imbalance))

\* finalize: the last flush; the statistics it prints are not modelled.
finalize(b) ==
    IF sink_fault.at = "finalize" THEN IoError(b)
    ELSE [b EXCEPT !.flushed = Len(b.writer)]

(***************************************************************************)
(* Order book engine (orderbook.rs)                                        *)
(***************************************************************************)

\* add_order.  `+=` on the u32 level volume: on overflow the build with
\* overflow checks panics (the entry was created by or_insert(0), the order
\* is not inserted), the build without wraps modulo 2^width.
add_order(b, order) ==
    IF order.side = "Buy"
    THEN LET old == IF order.price \in DOMAIN b.buy_price_map
                    THEN b.buy_price_map[order.price] ELSE 0
         IN  IF overflow_checks /\ old + order.shares > U32Max
             THEN Panic([b EXCEPT !.buy_price_map =
                            MapInsert(b.buy_price_map, order.price, old)])
             ELSE write_orderbook(
                    [b EXCEPT
                       !.buy_price_map = MapInsert(b.buy_price_map, order.price,
                                            (old + order.shares) % U32Modulus),
                       !.buy_orders = MapInsert(b.buy_orders,
                                            order.ref_number, order)],
                    order.timestamp)
    ELSE LET old == IF order.price \in DOMAIN b.sell_price_map
                    THEN b.sell_price_map[order.price] ELSE 0
         IN  IF overflow_checks /\ old + order.shares > U32Max
             THEN Panic([b EXCEPT !.sell_price_map =
                            MapInsert(b.sell_price_map, order.price, old)])
             ELSE write_orderbook(
                    [b EXCEPT
                       !.sell_price_map = MapInsert(b.sell_price_map, order.price,
                                            (old + order.shares) % U32Modulus),
                       !.sell_orders = MapInsert(b.sell_orders,
                                            order.ref_number, order)],
                    order.timestamp)

\* handle_add_order: read_stock(data, 23) comes first and the symbol gate
\* returns before any other field is read; then ref (10), side (18),
\* shares (19) and price (31).  A read outside the payload panics.
handle_add_order(b, payload, timestamp) ==
    IF ~InRange(payload, 23, 8) THEN Panic(b)
    ELSE IF read_stock(payload, 23) # symbol THEN b
    ELSE IF ~InRange(payload, 10, 8) \/ ~InRange(payload, 18, 1)
            \/ ~InRange(payload, 19, 4) \/ ~InRange(payload, 31, 4)
    THEN Panic(b)
    ELSE add_order(b,
            [ ref_number |-> read_order_ref_be(payload, 10),
              timestamp |-> timestamp,
              price |-> read_u32_be(payload, 31),
              shares |-> read_u32_be(payload, 19),
              side |-> SideFrom(payload[18 + 1]) ])

handle_add_order_with_mpid(b, payload, timestamp) ==
    IF ~InRange(payload, 23, 8) THEN Panic(b)
    ELSE IF read_stock(payload, 23) # symbol THEN b
    ELSE IF ~InRange(payload, 10, 8) \/ ~InRange(payload, 18, 1)
            \/ ~InRange(payload, 19, 4) \/ ~InRange(payload, 31, 4)
    THEN Panic(b)
    ELSE add_order(b,
            [ ref_number |-> read_order_ref_be(payload, 10),
              timestamp |-> timestamp,
              price |-> read_u32_be(payload, 31),
              shares |-> read_u32_be(payload, 19),
              side |-> SideFrom(payload[18 + 1]) ])

\* A level reduction that clears the map when the level reaches zero.
LevelSubClearing(price_map, price, amount) ==
    IF price \in DOMAIN price_map
    THEN IF saturating_sub(price_map[price], amount) = 0
         THEN EmptyMap
         ELSE [price_map EXCEPT ![price] = saturating_sub(@, amount)]
    ELSE price_map

\* `if let Some(volume) = map.get_mut(&price)`: the level volume is reduced
\* with saturation and the key removed when it reaches zero; an absent key
\* is left absent.
LevelSub(price_map, price, amount) ==
    IF price \in DOMAIN price_map
    THEN IF saturating_sub(price_map[price], amount) = 0
         THEN MapRemove(price_map, price)
         ELSE [price_map EXCEPT ![price] = saturating_sub(@, amount)]
    ELSE price_map

\* order.shares = order.shares.saturating_sub(amount); the order is removed
\* when no shares are left.
OrderSub(orders, ref, amount) ==
    IF saturating_sub(orders[ref].shares, amount) = 0
    THEN MapRemove(orders, ref)
    ELSE [orders EXCEPT ![ref].shares = saturating_sub(@, amount)]

handle_order_executed(b, payload, timestamp) ==
    IF ~InRange(payload, 10, 8) \/ ~InRange(payload, 18, 4) THEN Panic(b)
    ELSE
    LET order_ref_number == read_order_ref_be(payload, 10)
        executed_shares == read_u32_be(payload, 18)
    IN  IF order_ref_number \in DOMAIN b.buy_orders
        THEN write_orderbook(
               [b EXCEPT
                  !.buy_price_map = LevelSub(b.buy_price_map,
                      b.buy_orders[order_ref_number].price, executed_shares),
                  !.buy_orders = OrderSub(b.buy_orders, order_ref_number,
                                          executed_shares)],
               timestamp)
        ELSE IF order_ref_number \in DOMAIN b.sell_orders
        THEN write_orderbook(
               [b EXCEPT
                  !.sell_price_map = LevelSub(b.sell_price_map,
                      b.sell_orders[order_ref_number].price, executed_shares),
                  !.sell_orders = OrderSub(b.sell_orders, order_ref_number,
                                           executed_shares)],
               timestamp)
        ELSE b

\* An execution that also moves the order to the execution price read at
\* payload offset 31.
handle_order_executed_at_price(b, payload, timestamp) ==
    IF ~InRange(payload, 31, 4) THEN Panic(b)
    ELSE
    LET r == handle_order_executed(b, payload, timestamp)
        ref == read_order_ref_be(payload, 10)
        execution_price == read_u32_be(payload, 31)
    IN  IF ref \in DOMAIN r.buy_orders
        THEN [r EXCEPT !.buy_orders[ref].price = execution_price]
        ELSE IF ref \in DOMAIN r.sell_orders
        THEN [r EXCEPT !.sell_orders[ref].price = execution_price]
        ELSE r

\* The execution price at payload offset 31 is never read.
handle_order_executed_with_price(b, payload, timestamp) ==
    IF ~InRange(payload, 10, 8) \/ ~InRange(payload, 18, 4) THEN Panic(b)
    ELSE
    LET order_ref_number == read_order_ref_be(payload, 10)
        executed_shares == read_u32_be(payload, 18)
    IN  IF order_ref_number \in DOMAIN b.buy_orders
        THEN write_orderbook(
               [b EXCEPT
                  !.buy_price_map = LevelSub(b.buy_price_map,
                      b.buy_orders[order_ref_number].price, executed_shares),
                  !.buy_orders = OrderSub(b.buy_orders, order_ref_number,
                                          executed_shares)],
               timestamp)
        ELSE IF order_ref_number \in DOMAIN b.sell_orders
        THEN write_orderbook(
               [b EXCEPT
                  !.sell_price_map = LevelSub(b.sell_price_map,
                      b.sell_orders[order_ref_number].price, executed_shares),
                  !.sell_orders = OrderSub(b.sell_orders, order_ref_number,
                                           executed_shares)],
               timestamp)
        ELSE b

handle_order_cancel(b, payload, timestamp) ==
    IF ~InRange(payload, 10, 8) \/ ~InRange(payload, 18, 4) THEN Panic(b)
    ELSE
    LET order_ref_number == read_order_ref_be(payload, 10)
        cancelled_shares == read_u32_be(payload, 18)
    IN  IF order_ref_number \in DOMAIN b.buy_orders
        THEN write_orderbook(
               [b EXCEPT
                  !.buy_price_map = LevelSub(b.buy_price_map,
                      b.buy_orders[order_ref_number].price, cancelled_shares),
                  !.buy_orders = OrderSub(b.buy_orders, order_ref_number,
                                          cancelled_shares)],
               timestamp)
        ELSE IF order_ref_number \in DOMAIN b.sell_orders
        THEN write_orderbook(
               [b EXCEPT
                  !.sell_price_map = LevelSub(b.sell_price_map,
                      b.sell_orders[order_ref_number].price, cancelled_shares),
                  !.sell_orders = OrderSub(b.sell_orders, order_ref_number,
                                           cancelled_shares)],
               timestamp)
        ELSE b

\* A Delete that removes the reference from both orders maps.
handle_order_delete_both(b, payload, timestamp) ==
    IF ~InRange(payload, 10, 8) THEN Panic(b)
    ELSE
    LET order_ref_number == read_order_ref_be(payload, 10)
    IN  IF order_ref_number \in DOMAIN b.buy_orders
           \/ order_ref_number \in DOMAIN b.sell_orders
        THEN write_orderbook(
               [b EXCEPT
                  !.buy_orders = MapRemove(b.buy_orders, order_ref_number),
                  !.sell_orders = MapRemove(b.sell_orders, order_ref_number),
                  !.buy_price_map =
                      IF order_ref_number \in DOMAIN b.buy_orders
                      THEN LevelSub(b.buy_price_map,
                               b.buy_orders[order_ref_number].price,
                               b.buy_orders[order_ref_number].shares)
                      ELSE b.buy_price_map,
                  !.sell_price_map =
                      IF order_ref_number \in DOMAIN b.sell_orders
                      THEN LevelSub(b.sell_price_map,
                               b.sell_orders[order_ref_number].price,
                               b.sell_orders[order_ref_number].shares)
                      ELSE b.sell_price_map],
               timestamp)
        ELSE b

\* handle_order_delete: the side is the map the reference was found in.
handle_order_delete(b, payload, timestamp) ==
    IF ~InRange(payload, 10, 8) THEN Panic(b)
    ELSE
    LET order_ref_number == read_order_ref_be(payload, 10)
    IN  IF order_ref_number \in DOMAIN b.buy_orders
        THEN write_orderbook(
               [b EXCEPT
                  !.buy_orders = MapRemove(b.buy_orders, order_ref_number),
                  !.buy_price_map = LevelSub(b.buy_price_map,
                      b.buy_orders[order_ref_number].price,
                      b.buy_orders[order_ref_number].shares)],
               timestamp)
        ELSE IF order_ref_number \in DOMAIN b.sell_orders
        THEN write_orderbook(
               [b EXCEPT
                  !.sell_orders = MapRemove(b.sell_orders, order_ref_number),
                  !.sell_price_map = LevelSub(b.sell_price_map,
                      b.sell_orders[order_ref_number].price,
                      b.sell_orders[order_ref_number].shares)],
               timestamp)
        ELSE b

\* A Replace that inserts the new order without looking the original up.
handle_order_replace_upsert(b, payload, timestamp) ==
    add_order(b,
        [ ref_number |-> read_order_ref_be(payload, 18),
          timestamp |-> timestamp,
          price |-> read_u32_be(payload, 30),
          shares |-> read_u32_be(payload, 26),
          side |-> "Sell" ])

\* handle_order_replace: the side is the found order's side field; the old
\* order is removed from the map of that side, then add_order inserts the
\* new one and writes the only line.
handle_order_replace(b, payload, timestamp) ==
    IF ~InRange(payload, 10, 8) \/ ~InRange(payload, 18, 8)
       \/ ~InRange(payload, 26, 4) \/ ~InRange(payload, 30, 4)
    THEN Panic(b)
    ELSE
    LET original_order_ref_number == read_order_ref_be(payload, 10)
        new_order_ref_number == read_order_ref_be(payload, 18)
        new_shares == read_u32_be(payload, 26)
        new_price == read_u32_be(payload, 30)
        found == original_order_ref_number \in DOMAIN b.buy_orders
                 \/ original_order_ref_number \in DOMAIN b.sell_orders
        order == IF original_order_ref_number \in DOMAIN b.buy_orders
                 THEN b.buy_orders[original_order_ref_number]
                 ELSE b.sell_orders[original_order_ref_number]
        removed ==
            IF order.side = "Buy"
            THEN [b EXCEPT
                    !.buy_orders = MapRemove(b.buy_orders,
                                             original_order_ref_number),
                    !.buy_price_map = LevelSub(b.buy_price_map,
                                               order.price, order.shares)]
            ELSE [b EXCEPT
                    !.sell_orders = MapRemove(b.sell_orders,
                                              original_order_ref_number),
                    !.sell_price_map = LevelSub(b.sell_price_map,
                                                order.price, order.shares)]
    IN  IF found
        THEN add_order(removed,
                [ ref_number |-> new_order_ref_number,
                  timestamp |-> timestamp,
                  price |-> new_price,
                  shares |-> new_shares,
                  side |-> order.side ])
        ELSE b

\* A Trade that writes a snapshot when the symbol matches.
handle_trade_writes(b, payload) ==
    IF ~InRange(payload, 23, 8) THEN Panic(b)
    ELSE IF read_stock(payload, 23) # symbol THEN b
    ELSE write_orderbook(b, read_timestamp_be(payload, 4))

\* handle_trade: the symbol is read and compared; nothing else happens.
handle_trade(b, payload) ==
    IF ~InRange(payload, 23, 8) THEN Panic(b) ELSE b

\* A dispatch whose default arm writes a snapshot.
handle_message_default_writes(b, message_type, payload, timestamp) ==
    LET c == [b EXCEPT !.message_count = b.message_count + 1]
    IN  IF message_type \in {Ch("A"), Ch("F"), Ch("E"), Ch("C"), Ch("X"),
                             Ch("D"), Ch("U"), Ch("P")}
        THEN c
        ELSE write_orderbook(c, timestamp)

\* handle_message: counts the message, then dispatches on the variant.
handle_message(b, message_type, payload, timestamp) ==
    LET c == [b EXCEPT !.message_count = b.message_count + 1]
    IN  CASE message_type = Ch("A") -> handle_add_order(c, payload, timestamp)
          [] message_type = Ch("F") ->
                handle_add_order_with_mpid(c, payload, timestamp)
          [] message_type = Ch("E") ->
                handle_order_executed(c, payload, timestamp)
          [] message_type = Ch("C") ->
                handle_order_executed_with_price(c, payload, timestamp)
          [] message_type = Ch("X") -> handle_order_cancel(c, payload, timestamp)
          [] message_type = Ch("D") -> handle_order_delete(c, payload, timestamp)
          [] message_type = Ch("U") -> handle_order_replace(c, payload, timestamp)
          [] message_type = Ch("P") -> handle_trade(c, payload)
          [] OTHER -> c

(***************************************************************************)
(* The feed: wire encoding of the messages (ITCH 5.0 layouts as listed in  *)
(* the handlers' comments)                                                 *)
(***************************************************************************)

RECURSIVE BE(_, _)
\* The n-byte big-endian encoding of val.
BE(val, n) ==
    IF n = 0 THEN << >> ELSE BE(val \div 256, n - 1) \o << val % 256 >>

\* stock_locate (2), tracking_number (2), timestamp (6)
Prefix(ts) == BE(0, 2) \o BE(0, 2) \o BE(ts, 6)

AddOrderPayload(ts, ref, side, shares, stock, price) ==
    Prefix(ts) \o BE(ref, 8) \o << side >> \o BE(shares, 4) \o stock
        \o BE(price, 4)

AddOrderWithMpidPayload(ts, ref, side, shares, stock, price) ==
    AddOrderPayload(ts, ref, side, shares, stock, price)
        \o << Ch("N"), Ch("S"), Ch("D"), Ch("Q") >>

OrderExecutedPayload(ts, ref, executed_shares) ==
    Prefix(ts) \o BE(ref, 8) \o BE(executed_shares, 4) \o BE(0, 8)

OrderExecutedWithPricePayload(ts, ref, executed_shares, execution_price) ==
    Prefix(ts) \o BE(ref, 8) \o BE(executed_shares, 4) \o BE(0, 8)
        \o << Ch("Y") >> \o BE(execution_price, 4)

OrderCancelPayload(ts, ref, cancelled_shares) ==
    Prefix(ts) \o BE(ref, 8) \o BE(cancelled_shares, 4)

OrderDeletePayload(ts, ref) == Prefix(ts) \o BE(ref, 8)

OrderReplacePayload(ts, original_ref, new_ref, shares, price) ==
    Prefix(ts) \o BE(original_ref, 8) \o BE(new_ref, 8) \o BE(shares, 4)
        \o BE(price, 4)

TradePayload(ts, ref, side, shares, stock, price) ==
    Prefix(ts) \o BE(ref, 8) \o << side >> \o BE(shares, 4) \o stock
        \o BE(price, 4) \o BE(0, 8)

\* System Event: stock_locate, tracking_number, timestamp, event_code
SystemEventPayload(ts) == Prefix(ts) \o << Ch("O") >>

\* Input sets
Refs == {1, 2}

Prices == {499900, 500000}

Shares == {0, 1, U32Max}

SideBytes == {Ch("B"), Ch("S")}

\* The configured symbol, the eight symbols that differ from it in exactly
\* one byte, and one that differs in the first four.
Stocks ==
    { symbol, pad_stock_symbol(<<Ch("A"), Ch("A"), Ch("P"), Ch("L")>>) }
    \cup { [symbol EXCEPT ![i] = Ch("X")] : i \in 1..8 }

\* The fields of the Add messages: every combination for the configured
\* symbol, and one message for each other symbol.
AddFields ==
    [ref : Refs, side : SideBytes, shares : Shares, price : Prices,
     stock : {symbol}]
    \cup [ref : {1}, side : {Ch("B")}, shares : {1}, price : {500000},
          stock : Stocks \ {symbol}]

\* The timestamp the feed gives its n-th message.
Timestamps(n) == {34200 + n}

Live(ref) == ref \in DOMAIN buy_orders \/ ref \in DOMAIN sell_orders

(***************************************************************************)
(* Broadcast server (websocket.rs): the channel and the connection handler *)
(***************************************************************************)

\* Number of CSV rows the reader thread broadcasts at most.
MaxRows == 4

\* Number of connections the accept loop takes.
MaxClients == 2

\* broadcast::channel::<String>(1000): the number of messages the channel
\* retains for its receivers, scaled down.
ChannelCapacity == 2

Connections == 1..MaxClients

\* metadata_json: the column names.
MetadataMessage == [type |-> "metadata", row |-> 0]

\* json_data of the k-th data line of the file: csv_line_to_json(header,
\* line).  The message is identified by the line it was made from.
RowMessage(k) == [type |-> "row", row |-> k]

\* A connection the accept loop has not seen yet.
NoConnection ==
    [state |-> "absent", next |-> 0, subscribed_at |-> 0, received |-> << >>]

\* The connections that hold a Receiver: handle_connection owns rx from the
\* subscribe in the accept loop until it returns.
Receivers(cl) == {c \in DOMAIN cl : cl[c].state \in {"accepting", "open"}}

\* broadcast::Sender::send: with no receiver the value is returned in the
\* error (which start_csv_reader drops) and nothing is stored.
send(ch, cl, msg) == IF Receivers(cl) = {} THEN ch ELSE Append(ch, msg)

\* broadcast_tx.subscribe(): the receiver sees the values sent after the
\* call.  subscribed_at records how many sends the reader had made.
subscribe(ch, history) ==
    [state |-> "accepting", next |-> Len(ch), subscribed_at |-> Len(history),
     received |-> << >>]

\* broadcast::Receiver::recv with the cursor at next: no value yet, the next
\* value, or RecvError::Lagged when the value at the cursor was overwritten,
\* which moves the cursor to the oldest value retained.
recv(ch, next) ==
    IF next >= Len(ch)
    THEN [kind |-> "pending", msg |-> MetadataMessage, next |-> next]
    ELSE IF next < Len(ch) - ChannelCapacity
    THEN [kind |-> "lagged", msg |-> MetadataMessage,
          next |-> Len(ch) - ChannelCapacity]
    ELSE [kind |-> "ok", msg |-> ch[next + 1], next |-> next + 1]

\* A handler that goes on after RecvError::Lagged.
on_broadcast_skipping(client, got, socket_ok) ==
    CASE got.kind = "ok" /\ socket_ok ->
            [client EXCEPT !.next = got.next,
                           !.received = Append(@, got.msg)]
      [] got.kind = "ok" /\ ~socket_ok ->
            [client EXCEPT !.next = got.next, !.state = "closed"]
      [] got.kind = "lagged" -> [client EXCEPT !.next = got.next]
      [] OTHER -> client

\* handle_connection, the `data = rx.recv()` branch of select!: Ok(msg) is
\* sent on the socket and the loop breaks if that fails; Err(e) breaks.
on_broadcast(client, got, socket_ok) ==
    CASE got.kind = "ok" /\ socket_ok ->
            [client EXCEPT !.next = got.next,
                           !.received = Append(@, got.msg)]
      [] got.kind = "ok" /\ ~socket_ok ->
            [client EXCEPT !.next = got.next, !.state = "closed"]
      [] got.kind = "lagged" ->
            [client EXCEPT !.next = got.next, !.state = "closed"]
      [] OTHER -> client

\* WebSocketServer::start before the reader thread and the accept loop have
\* taken a step.
NewServer ==
    /\ reader = "opening"
    /\ csv_count = 0
    /\ channel = << >>
    /\ sent = << >>
    /\ clients = [c \in Connections |-> NoConnection]

(***************************************************************************)
(* Spec: the engine under any sequence of handle_message calls             *)
(***************************************************************************)

Header == "timestamp,1_bid_price,...,10_ask_vol,mid_price,orderbook_imbalance"

\* A construction that writes no header.
NewBookWithoutHeader ==
    /\ buy_orders = EmptyMap
    /\ sell_orders = EmptyMap
    /\ buy_price_map = EmptyMap
    /\ sell_price_map = EmptyMap
    /\ writer = << >>
    /\ last_state = None
    /\ message_count = 0
    /\ update_count = 0
    /\ flushed = 0

\* OrderBook::new
NewBook ==
    /\ buy_orders = EmptyMap
    /\ sell_orders = EmptyMap
    /\ buy_price_map = EmptyMap
    /\ sell_price_map = EmptyMap
    /\ writer = << Header >>
    /\ last_state = None
    /\ message_count = 0
    /\ update_count = 0
    /\ flushed = 0

Init ==
    /\ NewBook
    /\ status = "running"
    /\ overflow_checks \in BOOLEAN
    /\ sink_fault = NoFault
    /\ data = << >>
    /\ offset = 0
    /\ count = 0
    /\ applied = << >>
    /\ NewServer

\* A caller that goes on after an error.
AfterCallIgnoringError(result) ==
    IF result = "panic" THEN "panicked" ELSE "running"

\* What the caller of handle_message does with its result: `?` returns the
\* error to main, which ends with a failure; a panic aborts the process.
AfterCall(result) ==
    CASE result = "panic" -> "panicked"
      [] result = "io_error" -> "failed"
      [] OTHER -> "running"

\* The book variables after a call that left the book r.
SetBook(r) ==
    /\ buy_orders' = r.buy_orders
    /\ sell_orders' = r.sell_orders
    /\ buy_price_map' = r.buy_price_map
    /\ sell_price_map' = r.sell_price_map
    /\ writer' = r.writer
    /\ last_state' = r.last_state
    /\ message_count' = r.message_count
    /\ update_count' = r.update_count
    /\ flushed' = r.flushed

\* One call order_book.handle_message(message_type, payload, timestamp).
\* applicable: the event is one the book is to apply (history only).
Call(message_type, payload, timestamp, applicable) ==
    /\ status = "running"
    /\ message_count < MaxMessages
    /\ \E bytes \in {payload}, b \in {Book} :
       \E r \in {handle_message(b, message_type, bytes, timestamp)} :
           /\ SetBook(r)
           /\ status' = AfterCall(r.result)
    /\ applied' = IF applicable THEN Append(applied, timestamp) ELSE applied
    /\ UNCHANGED server_vars
    /\ UNCHANGED << overflow_checks, sink_fault, data, offset, count >>

AddOrder ==
    \E ts \in Timestamps(message_count), m \in AddFields :
        Call(Ch("A"),
             AddOrderPayload(ts, m.ref, m.side, m.shares, m.stock, m.price),
             ts, m.stock = symbol)

AddOrderWithMpid ==
    \E ts \in Timestamps(message_count), m \in AddFields :
        Call(Ch("F"),
             AddOrderWithMpidPayload(ts, m.ref, m.side, m.shares, m.stock,
                                     m.price),
             ts, m.stock = symbol)

OrderExecuted ==
    \E ts \in Timestamps(message_count), ref \in Refs, amount \in Shares :
        Call(Ch("E"), OrderExecutedPayload(ts, ref, amount), ts, Live(ref))

OrderExecutedWithPrice ==
    \E ts \in Timestamps(message_count), ref \in Refs, amount \in Shares,
       price \in Prices :
        Call(Ch("C"), OrderExecutedWithPricePayload(ts, ref, amount, price),
             ts, Live(ref))

OrderCancel ==
    \E ts \in Timestamps(message_count), ref \in Refs, amount \in Shares :
        Call(Ch("X"), OrderCancelPayload(ts, ref, amount), ts, Live(ref))

OrderDelete ==
    \E ts \in Timestamps(message_count), ref \in Refs :
        Call(Ch("D"), OrderDeletePayload(ts, ref), ts, Live(ref))

OrderReplace ==
    \E ts \in Timestamps(message_count), original_ref \in Refs,
       new_ref \in Refs, shares \in Shares, price \in Prices :
        Call(Ch("U"),
             OrderReplacePayload(ts, original_ref, new_ref, shares, price),
             ts, Live(original_ref))

\* handle_trade reads the symbol only: the trades differ in the symbol.
Trade ==
    \E ts \in Timestamps(message_count), stock \in Stocks :
        Call(Ch("P"), TradePayload(ts, 1, Ch("B"), 1, stock, 500000),
             ts, FALSE)

\* A variant handle_message has no handler for (System Event).
SystemEvent ==
    Call(Ch("S"), SystemEventPayload(0), 0, FALSE)

Next ==
    \/ AddOrder
    \/ AddOrderWithMpid
    \/ OrderExecuted
    \/ OrderExecutedWithPrice
    \/ OrderCancel
    \/ OrderDelete
    \/ OrderReplace
    \/ Trade
    \/ SystemEvent

Spec == Init /\ [][Next]_vars

(***************************************************************************)
(* SpecWalk: main = OrderBook::new, process_itch_file, finalize            *)
(***************************************************************************)

InScopeTags ==
    { Ch("A"), Ch("F"), Ch("E"), Ch("C"), Ch("X"), Ch("D"), Ch("U"), Ch("P") }

\* A frame on the wire: the u16 length (type byte plus payload), the type
\* byte, the payload.
Frame(tag, payload) == BE(Len(payload) + 1, 2) \o << tag >> \o payload

\* The frames the buffers are built from.
WalkFrames ==
    { Frame(Ch("A"), AddOrderPayload(34201, 1, Ch("B"), 1, symbol, 500000)),
      Frame(Ch("F"),
            AddOrderWithMpidPayload(34202, 2, Ch("S"), 1, symbol, 500000)),
      Frame(Ch("A"),
            AddOrderPayload(34203, 1, Ch("B"), 1,
                            [symbol EXCEPT ![8] = Ch("X")], 500000)),
      Frame(Ch("X"), OrderCancelPayload(34204, 1, 0)),
      Frame(Ch("D"), OrderDeletePayload(34205, 1)),
      Frame(Ch("U"), OrderReplacePayload(34206, 1, 2, 1, 499900)),
      Frame(Ch("S"), SystemEventPayload(34207)),
      Frame(Ch("Z"), Prefix(34208)),
      \* a frame whose length field is 0
      BE(0, 2),
      \* an Add for the configured symbol whose payload ends before the price
      Frame(Ch("A"),
            SubSeq(AddOrderPayload(34209, 2, Ch("B"), 1, symbol, 500000),
                   1, 33)),
      \* a Delete whose payload ends before the reference number
      Frame(Ch("D"), Prefix(34210)),
      \* a Trade whose payload ends before the timestamp
      Frame(Ch("P"), BE(0, 2) \o BE(0, 2)) }

\* What follows the last frame: nothing (the last frame ends at the last
\* byte of the file), one stray byte, or the header of a frame whose
\* payload is missing.
Tails == { << >>, << 0 >>, BE(19, 2) \o << Ch("D") >> }

RECURSIVE Concat(_)
Concat(frames) ==
    IF Len(frames) = 0 THEN << >> ELSE Head(frames) \o Concat(Tail(frames))

Buffers ==
    { Concat(frames) \o tail :
        frames \in UNION { [1..n -> WalkFrames] : n \in 0..MaxFrames },
        tail \in Tails }

\* The faults of the runs over the buffers: the first or the second row.
WalkFaults == SinkFaults({1, 2}, {})

InitWalk ==
    /\ NewBook
    /\ status = "running"
    /\ overflow_checks \in BOOLEAN
    /\ sink_fault \in WalkFaults
    /\ data \in Buffers
    /\ offset = 0
    /\ count = 0
    /\ applied = << >>
    /\ NewServer

\* The event in this frame is one the book is to apply: an Add for the
\* configured symbol, or an E, C, X, D, U whose reference is live.
Applicable(tag, payload) ==
    \/ /\ tag \in {Ch("A"), Ch("F")}
       /\ InRange(payload, 23, 8)
       /\ read_stock(payload, 23) = symbol
    \/ /\ tag \in {Ch("E"), Ch("C"), Ch("X"), Ch("D"), Ch("U")}
       /\ InRange(payload, 10, 8)
       /\ Live(read_order_ref_be(payload, 10))

\* The timestamps the feed writes into its messages.
FeedTimestamps == 34200..34310

\* The timestamp the feed wrote into this message: the one whose 6-byte
\* encoding follows the stock locate and the tracking number.
SentTimestamp(payload) ==
    CHOOSE t \in FeedTimestamps : BE(t, 6) = SubSeq(payload, 5, 10)

\* A timestamp taken from the first six bytes of the payload.
FrameTimestampAtStart(message_type, message_data) ==
    IF message_type \in InScopeTags /\ Len(message_data) >= 10
    THEN read_timestamp_be(message_data, 0)
    ELSE 0

\* The timestamp process_itch_file extracts for the engine.
FrameTimestamp(message_type, message_data) ==
    IF message_type \in InScopeTags /\ Len(message_data) >= 10
    THEN read_timestamp_be(message_data, 4)
    ELSE 0

\* One iteration of the while loop of process_itch_file, entered with
\* offset + MSG_HEADER_SIZE <= data_len.  The cursor moves past the header
\* before the length check; `&data[offset..offset + msg_length - 1]` panics
\* when msg_length is 0 (the range ends before it starts).
Iterate ==
    /\ status = "running"
    /\ offset + MSG_HEADER_SIZE <= Len(data)
    /\ \E msg_length \in {read_u16_be(data, offset)},
          past \in {offset + MSG_HEADER_SIZE} :
        IF past + msg_length > Len(data)
        THEN /\ status' = "returned"
             /\ offset' = past
             /\ UNCHANGED << buy_orders, sell_orders, buy_price_map,
                             sell_price_map, writer, last_state,
                             message_count, update_count, flushed, count,
                             applied >>
        ELSE IF msg_length = 0
        THEN /\ status' = "panicked"
             /\ offset' = past
             /\ UNCHANGED << buy_orders, sell_orders, buy_price_map,
                             sell_price_map, writer, last_state,
                             message_count, update_count, flushed, count,
                             applied >>
        ELSE \E message_type \in {MessageTypeFrom(data[offset + 2 + 1])},
                message_data \in {SubSeq(data, past + 1,
                                         past + msg_length - 1)} :
             \E timestamp \in {FrameTimestamp(message_type, message_data)} :
                IF message_type # Unknown
                THEN \E r \in {handle_message(Book, message_type,
                                              message_data, timestamp)} :
                        /\ SetBook(r)
                        /\ applied' =
                              IF Applicable(message_type, message_data)
                              THEN Append(applied,
                                          SentTimestamp(message_data))
                              ELSE applied
                        /\ status' = AfterCall(r.result)
                        /\ IF AfterCall(r.result) # "running"
                           THEN /\ offset' = past
                                /\ count' = count
                           ELSE /\ offset' = past + (msg_length - 1)
                                /\ count' = count + 1
                ELSE /\ status' = "running"
                     /\ offset' = past + (msg_length - 1)
                     /\ count' = count + 1
                     /\ UNCHANGED << buy_orders, sell_orders, buy_price_map,
                                     sell_price_map, writer, last_state,
                                     message_count, update_count, flushed,
                                     applied >>
    /\ UNCHANGED server_vars
    /\ UNCHANGED << overflow_checks, sink_fault, data >>

\* The while condition fails: process_itch_file returns Ok(()).
LoopExit ==
    /\ status = "running"
    /\ ~(offset + MSG_HEADER_SIZE <= Len(data))
    /\ status' = "returned"
    /\ UNCHANGED << buy_orders, sell_orders, buy_price_map, sell_price_map,
                    writer, last_state, message_count, update_count, flushed,
                    overflow_checks, sink_fault, data, offset, count,
                    applied >>
    /\ UNCHANGED server_vars

\* main calls order_book.finalize() after process_itch_file returned Ok,
\* and returns its error if it has one.
Finalize ==
    /\ status = "returned"
    /\ \E r \in {finalize(Book)} :
          /\ SetBook(r)
          /\ status' = IF r.result = "io_error" THEN "failed" ELSE "done"
    /\ UNCHANGED server_vars
    /\ UNCHANGED << overflow_checks, sink_fault, data, offset, count,
                    applied >>

NextWalk ==
    \/ Iterate
    \/ LoopExit
    \/ Finalize

SpecWalk == InitWalk /\ [][NextWalk]_vars

(***************************************************************************)
(* SpecFlush: main over buffers long enough for the periodic flush         *)
(***************************************************************************)

\* Number of frames of the longest buffer.
MaxFlushFrames == 201

\* The i-th frame of the long buffers: an Add of one Buy order when i is
\* odd, its Delete when i is even; every frame writes one row.
FlushFrame(i) ==
    IF i % 2 = 1
    THEN Frame(Ch("A"),
               AddOrderPayload(34200 + (i % 64), 1, Ch("B"), 1, symbol, 500000))
    ELSE Frame(Ch("D"), OrderDeletePayload(34200 + (i % 64), 1))

RECURSIVE FlushFrames(_, _)
\* The frames lo..hi, one after the other.
FlushFrames(lo, hi) ==
    IF lo > hi THEN << >>
    ELSE IF lo = hi THEN FlushFrame(lo)
    ELSE FlushFrames(lo, (lo + hi) \div 2)
             \o FlushFrames((lo + hi) \div 2 + 1, hi)

\* The first n frames and one stray byte after them.
FlushBuffer(n) == FlushFrames(1, n) \o << 0 >>

\* The faults of the long runs: none, a row that is refused or left
\* incomplete, a periodic flush that fails, the flush of finalize.
FlushFaults == SinkFaults({50, 150}, {100, 200})

InitFlush ==
    /\ NewBook
    /\ status = "running"
    /\ overflow_checks \in BOOLEAN
    /\ sink_fault \in FlushFaults
    /\ data \in {FlushBuffer(100), FlushBuffer(MaxFlushFrames)}
    /\ offset = 0
    /\ count = 0
    /\ applied = << >>
    /\ NewServer

SpecFlush == InitFlush /\ [][NextWalk]_vars

(***************************************************************************)
(* SpecDepth: the engine on books with more levels than a snapshot shows   *)
(***************************************************************************)

\* Largest number of price levels a side of the starting books has.
MaxLevels == 11

\* Number of messages SpecDepth delivers to a starting book.
MaxDepthMessages == 2

\* The prices of the deep books: one tick (0.0001) apart.
LadderPrice(i) == 500000 + i

\* The numbers of levels a side of a starting book has: none, one, one
\* fewer than the snapshot depth, the snapshot depth, and MaxLevels.
LevelCounts == {0, 1, MAX_BOOK_DEPTH - 1, MAX_BOOK_DEPTH, MaxLevels}

\* OrderBook::new, as a value.
EmptyBook ==
    [ buy_orders |-> EmptyMap, sell_orders |-> EmptyMap,
      buy_price_map |-> EmptyMap, sell_price_map |-> EmptyMap,
      writer |-> << Header >>, last_state |-> None,
      message_count |-> 0, update_count |-> 0, flushed |-> 0,
      result |-> "ok" ]

RECURSIVE AddLevels(_, _, _, _)
\* The book after handle_message has taken, on book b, n Adds for the
\* configured symbol on one side: one share each at the ladder prices
\* 1..n, with the references base + 1 .. base + n.
AddLevels(b, side, base, n) ==
    IF n = 0 THEN b
    ELSE CHOOSE after \in
             { handle_message(before, Ch("A"),
                   AddOrderPayload(34000 + before.message_count, base + n,
                                   side, 1, symbol, LadderPrice(n)),
                   34000 + before.message_count) :
               before \in {AddLevels(b, side, base, n - 1)} } : TRUE

\* A book that nb Adds on the Buy side and na Adds on the Sell side have
\* built from the new book.
InitDepth ==
    /\ overflow_checks \in BOOLEAN
    /\ sink_fault = NoFault
    /\ \E nb \in LevelCounts, na \in LevelCounts :
          \E b \in {AddLevels(AddLevels(EmptyBook, Ch("B"), 0, nb),
                              Ch("S"), 100, na)} :
              /\ buy_orders = b.buy_orders
              /\ sell_orders = b.sell_orders
              /\ buy_price_map = b.buy_price_map
              /\ sell_price_map = b.sell_price_map
              /\ writer = b.writer
              /\ last_state = b.last_state
              /\ message_count = b.message_count
              /\ update_count = b.update_count
              /\ flushed = b.flushed
              /\ applied = [k \in 1..(nb + na) |-> 34000 + k - 1]
    /\ status = "running"
    /\ data = << >>
    /\ offset = 0
    /\ count = 0
    /\ NewServer

\* One call order_book.handle_message(message_type, payload, timestamp) on
\* a deep book; count is the number of calls made since the start.
Deliver(message_type, payload, timestamp, applicable) ==
    /\ status = "running"
    /\ count < MaxDepthMessages
    /\ \E bytes \in {payload}, b \in {Book} :
       \E r \in {handle_message(b, message_type, bytes, timestamp)} :
           /\ SetBook(r)
           /\ status' = AfterCall(r.result)
    /\ applied' = IF applicable THEN Append(applied, timestamp) ELSE applied
    /\ count' = count + 1
    /\ UNCHANGED server_vars
    /\ UNCHANGED << overflow_checks, sink_fault, data, offset >>

\* The references of the best, the tenth and the last of the starting
\* levels of each side, and of the orders added since.
DepthRefs ==
    { 1, MAX_BOOK_DEPTH, MaxLevels, 101, 100 + MAX_BOOK_DEPTH, 100 + MaxLevels,
      200, 201 }

\* The prices of the Adds on a deep book: the price field 0, and a price
\* below all levels, at the first level and above all levels.
DepthPrices ==
    {0, LadderPrice(0), LadderPrice(1), LadderPrice(MaxLevels + 1)}

DepthAdd ==
    \E side \in SideBytes, price \in DepthPrices, shares \in {0, 1, 2} :
        Deliver(Ch("A"),
                AddOrderPayload(34000 + message_count, 200 + count, side,
                                shares, symbol, price),
                34000 + message_count, TRUE)

DepthCancel ==
    \E ref \in DepthRefs :
        Deliver(Ch("X"), OrderCancelPayload(34000 + message_count, ref, 1),
                34000 + message_count, Live(ref))

DepthDelete ==
    \E ref \in DepthRefs :
        Deliver(Ch("D"), OrderDeletePayload(34000 + message_count, ref),
                34000 + message_count, Live(ref))

\* A Replace that moves the order of the first level below or above all
\* levels.
DepthReplace ==
    \E original_ref \in {1, 101}, i \in {0, MaxLevels + 1} :
        Deliver(Ch("U"),
                OrderReplacePayload(34000 + message_count, original_ref,
                                    300 + count, 1, LadderPrice(i)),
                34000 + message_count, Live(original_ref))

NextDepth ==
    \/ DepthAdd
    \/ DepthCancel
    \/ DepthDelete
    \/ DepthReplace

SpecDepth == InitDepth /\ [][NextDepth]_vars

(***************************************************************************)
(* SpecServe: the broadcast server, reader thread and connections          *)
(***************************************************************************)

InitServe ==
    /\ NewBook
    /\ status = "running"
    /\ overflow_checks = FALSE
    /\ sink_fault = NoFault
    /\ data = << >>
    /\ offset = 0
    /\ count = 0
    /\ applied = << >>
    /\ NewServer

\* start_csv_reader returns before it sends anything: the file did not
\* appear within 30 s, could not be opened, or has no header line.
ReaderGivesUp ==
    /\ reader = "opening"
    /\ reader' = "exit"
    /\ UNCHANGED << csv_count, channel, sent, clients >>
    /\ UNCHANGED engine_vars

\* let _ = tx.send(metadata_json)
SendMetadata ==
    /\ reader = "opening"
    /\ reader' = "rows"
    /\ channel' = send(channel, clients, MetadataMessage)
    /\ sent' = Append(sent, MetadataMessage)
    /\ UNCHANGED << csv_count, clients >>
    /\ UNCHANGED engine_vars

\* One iteration of `for line in lines` with Ok(data): let _ =
\* tx.send(json_data); count += 1.  An Err line is reported and sends
\* nothing: the rows are numbered among the lines that were read.
SendRow ==
    /\ reader = "rows"
    /\ csv_count < MaxRows
    /\ \E json_data \in {RowMessage(csv_count + 1)} :
          /\ channel' = send(channel, clients, json_data)
          /\ sent' = Append(sent, json_data)
    /\ csv_count' = csv_count + 1
    /\ UNCHANGED << reader, clients >>
    /\ UNCHANGED engine_vars

\* The lines of the file are exhausted: the thread ends.
ReaderFinishes ==
    /\ reader = "rows"
    /\ reader' = "exit"
    /\ UNCHANGED << csv_count, channel, sent, clients >>
    /\ UNCHANGED engine_vars

\* The accept loop: listener.accept(), broadcast_tx.subscribe(), spawn.
Accept(c) ==
    /\ clients[c].state = "absent"
    /\ clients' = [clients EXCEPT ![c] = subscribe(channel, sent)]
    /\ UNCHANGED << reader, csv_count, channel, sent >>
    /\ UNCHANGED engine_vars

\* handle_connection: accept_async succeeded.
Handshake(c) ==
    /\ clients[c].state = "accepting"
    /\ clients' = [clients EXCEPT ![c].state = "open"]
    /\ UNCHANGED << reader, csv_count, channel, sent >>
    /\ UNCHANGED engine_vars

\* handle_connection: accept_async failed, the task returns.
HandshakeFails(c) ==
    /\ clients[c].state = "accepting"
    /\ clients' = [clients EXCEPT ![c].state = "closed"]
    /\ UNCHANGED << reader, csv_count, channel, sent >>
    /\ UNCHANGED engine_vars

\* handle_connection: rx.recv() completed; the socket takes the message or
\* refuses it.
Broadcast(c) ==
    /\ clients[c].state = "open"
    /\ \E got \in {recv(channel, clients[c].next)}, socket_ok \in BOOLEAN :
          /\ got.kind # "pending"
          /\ clients' = [clients EXCEPT
                            ![c] = on_broadcast(clients[c], got, socket_ok)]
    /\ UNCHANGED << reader, csv_count, channel, sent >>
    /\ UNCHANGED engine_vars

\* handle_connection: the socket branch of select! breaks the loop (stream
\* ended, socket error, or the Pong could not be sent).
SocketEnds(c) ==
    /\ clients[c].state = "open"
    /\ clients' = [clients EXCEPT ![c].state = "closed"]
    /\ UNCHANGED << reader, csv_count, channel, sent >>
    /\ UNCHANGED engine_vars

NextServe ==
    \/ ReaderGivesUp
    \/ SendMetadata
    \/ SendRow
    \/ ReaderFinishes
    \/ \E c \in Connections : Accept(c)
    \/ \E c \in Connections : Handshake(c)
    \/ \E c \in Connections : HandshakeFails(c)
    \/ \E c \in Connections : Broadcast(c)
    \/ \E c \in Connections : SocketEnds(c)

SpecServe == InitServe /\ [][NextServe]_vars

(***************************************************************************)
(* Properties                                                              *)
(***************************************************************************)

\* The data rows of the output: everything after the header line.
Rows == Tail(writer)

\* The engine is between two messages of the run and takes another one.
Accepting == status = "running" /\ message_count < MaxMessages

LevelVolume(price_map, p) == IF p \in DOMAIN price_map THEN price_map[p] ELSE 0

RECURSIVE SumShares(_, _, _)
\* Sum of the shares of the orders of `orders` with a reference in refs
\* and price p.
SumShares(orders, refs, p) ==
    IF refs = {} THEN 0
    ELSE LET r == CHOOSE x \in refs : TRUE
         IN  (IF orders[r].price = p THEN orders[r].shares ELSE 0)
             + SumShares(orders, refs \ {r}, p)

LiveShares(orders, p) == SumShares(orders, DOMAIN orders, p)

\* C1: after every event, on each side the volume stored for every price
\* equals the sum of the shares of the live orders at that price (an absent
\* level counting as 0).
C1_LevelsEqualLiveShares ==
    status = "running" =>
        \A p \in Prices :
            /\ LevelVolume(buy_price_map, p) = LiveShares(buy_orders, p)
            /\ LevelVolume(sell_price_map, p) = LiveShares(sell_orders, p)

RECURSIVE FramesInside(_, _)
\* The number of frames that lie completely inside the buffer, walking from
\* cursor off by the framing rule: a frame is there when its 3-byte header
\* fits (off + 3 <= len) and its 2 + len bytes fit (off + 2 + len <= len).
FramesInside(buffer, off) ==
    IF off + 3 <= Len(buffer)
       /\ off + 2 + read_u16_be(buffer, off) <= Len(buffer)
    THEN 1 + FramesInside(buffer, off + 2 + read_u16_be(buffer, off))
    ELSE 0

\* C2: when process_itch_file has returned, it has processed every frame
\* that lies completely inside the buffer, a final frame that ends at the
\* last byte included.
C2_EveryCompleteFrameProcessed ==
    status \in {"returned", "done"} => count = FramesInside(data, 0)

\* C3: no buffer makes the walker or the engine read outside the current
\* payload or abort.
C3_NeverAborts == status # "panicked"

\* The payload of a decrement message (E, C or X) for ref and amount.
DecrementPayload(tag, ts, ref, amount) ==
    CASE tag = Ch("E") -> OrderExecutedPayload(ts, ref, amount)
      [] tag = Ch("C") -> OrderExecutedWithPricePayload(ts, ref, amount, 500000)
      [] tag = Ch("X") -> OrderCancelPayload(ts, ref, amount)

\* The amounts tried: the share values of the feed and the value next to
\* the largest.
Amounts == Shares \cup {U32Max - 1}

AllInU32(b) ==
    /\ \A r \in DOMAIN b.buy_orders : b.buy_orders[r].shares \in 0..U32Max
    /\ \A r \in DOMAIN b.sell_orders : b.sell_orders[r].shares \in 0..U32Max
    /\ \A p \in DOMAIN b.buy_price_map : b.buy_price_map[p] \in 0..U32Max
    /\ \A p \in DOMAIN b.sell_price_map : b.sell_price_map[p] \in 0..U32Max

\* The effect C4 states for one decrement of `amount` on the order `before`
\* found in orders_before, whose level map is levels_before.
DecrementEffect(ref, amount, before, levels_before, orders_after, levels_after) ==
    /\ amount >= before.shares => ref \notin DOMAIN orders_after
    /\ amount < before.shares =>
          /\ ref \in DOMAIN orders_after
          /\ orders_after[ref].shares = before.shares - amount
    /\ LevelVolume(levels_after, before.price) =
          IF LevelVolume(levels_before, before.price) >= amount
          THEN LevelVolume(levels_before, before.price) - amount
          ELSE 0

\* C4: in every reachable book, an Execute, Execute-with-price or Cancel of
\* a live order with an amount at least its remaining shares removes the
\* order; a smaller amount leaves the difference; the level volume is
\* reduced by the amount and stops at zero; the call returns ok and every
\* stored value stays in 0..u32::MAX.
C4_SaturatingDecrement ==
    Accepting =>
        \A tag \in {Ch("E"), Ch("C"), Ch("X")}, ref \in Refs,
           amount \in Amounts :
            Live(ref) =>
                \A r \in {handle_message(Book, tag,
                              DecrementPayload(tag, 34300, ref, amount),
                              34300)} :
                    /\ r.result = "ok"
                    /\ AllInU32(r)
                    /\ IF ref \in DOMAIN buy_orders
                       THEN DecrementEffect(ref, amount, buy_orders[ref],
                                buy_price_map, r.buy_orders, r.buy_price_map)
                       ELSE DecrementEffect(ref, amount, sell_orders[ref],
                                sell_price_map, r.sell_orders,
                                r.sell_price_map)

\* A book with two live Buy orders at one price, one of them with fewer
\* shares than u32::MAX, which an Execute of u32::MAX shares removes while
\* the level volume stops at zero.
C4_Witness ==
    /\ Accepting
    /\ \E ref \in DOMAIN buy_orders, other \in DOMAIN buy_orders :
          /\ ref # other
          /\ buy_orders[ref].price = buy_orders[other].price
          /\ buy_orders[ref].shares \in 1..(U32Max - 1)
          /\ \E r \in {handle_message(Book, Ch("E"),
                           OrderExecutedPayload(34300, ref, U32Max), 34300)} :
                /\ ref \notin DOMAIN r.buy_orders
                /\ buy_orders[ref].price \notin DOMAIN r.buy_price_map
                /\ Len(r.writer) = Len(writer) + 1

\* C5: after any sequence of messages the number of data rows written
\* equals the number of applied events (Adds for the configured symbol and
\* E, C, X, D, U events on a live reference) and equals update_count.
C5_OneRowPerAppliedEvent ==
    /\ Len(Rows) = Len(applied)
    /\ update_count = Len(applied)

\* The price levels a row shows on one side: the (price, volume) pairs of
\* its columns that are not padding.
RowLevels(row, side) ==
    { IF side = "Buy"
      THEN << row.cols[i].bid_int * 10000 + row.cols[i].bid_dec,
              row.cols[i].bid_vol >>
      ELSE << row.cols[i].ask_int * 10000 + row.cols[i].ask_dec,
              row.cols[i].ask_vol >> : i \in 1..MAX_BOOK_DEPTH } \ { << 0, 0 >> }

BookLevels(price_map) == { << p, price_map[p] >> : p \in DOMAIN price_map }

\* The row shows book b: on each side its levels are the levels of b.
\* (The books of the model have fewer than MAX_BOOK_DEPTH levels a side.)
Shows(row, b) ==
    /\ RowLevels(row, "Buy") = BookLevels(b.buy_price_map)
    /\ RowLevels(row, "Sell") = BookLevels(b.sell_price_map)

\* One step of the walker, as C6 has it: the rows written stay in place; a
\* frame that carries an applied event appends one row, which carries the
\* timestamp the feed gave that frame and shows the book as the event left
\* it; a step that ends the run with an I/O error appends at most the
\* incomplete line of its event; any other step appends nothing; the i-th
\* row carries the timestamp of the i-th applied event.
C6_Step ==
    /\ Len(writer') >= Len(writer)
    /\ SubSeq(writer', 1, Len(writer)) = writer
    /\ IF applied' # applied /\ status' \notin {"panicked", "failed"}
       THEN /\ Len(writer') = Len(writer) + 1
            /\ writer'[Len(writer')].timestamp = applied'[Len(applied')]
            /\ Shows(writer'[Len(writer')], Book')
       ELSE IF status' = "failed"
       THEN Len(writer') <= Len(writer) + 1
       ELSE writer' = writer
    /\ Len(Rows') <= Len(applied')
    /\ \A i \in 1..Len(Rows') : Rows'[i].timestamp = applied'[i]

\* C6: the rows appear in the order of their causing frames in the buffer:
\* the i-th row is written by the i-th applied event, carries its
\* timestamp and shows the book right after it.
C6_RowsFollowInput == [][C6_Step]_vars

\* A buffer of three frames walked to the end, two of them applied, with
\* two rows of different timestamps and different depth, the second one
\* showing the final book.
C6_Witness ==
    /\ status = "done"
    /\ count = 3
    /\ Len(applied) = 2
    /\ Len(Rows) = 2
    /\ applied[1] # applied[2]
    /\ Rows[1].timestamp = applied[1]
    /\ Rows[2].timestamp = applied[2]
    /\ Rows[1].cols # Rows[2].cols
    /\ Shows(Rows[2], Book)

\* The effect C7 states for a Replace of original_ref by new_ref with
\* new_shares at new_price, r being the book the handler returns.
ReplaceEffect(original_ref, new_ref, new_shares, new_price, r) ==
    LET on_buy == original_ref \in DOMAIN buy_orders
        old == IF on_buy THEN buy_orders[original_ref]
               ELSE sell_orders[original_ref]
        level_before == IF on_buy THEN LevelVolume(buy_price_map, old.price)
                        ELSE LevelVolume(sell_price_map, old.price)
        reduced == IF level_before >= old.shares
                   THEN level_before - old.shares ELSE 0
        orders_after == IF on_buy THEN r.buy_orders ELSE r.sell_orders
        levels_after == IF on_buy THEN r.buy_price_map ELSE r.sell_price_map
    IN  /\ r.result = "ok"
        /\ Len(r.writer) = Len(writer) + 1
        /\ original_ref \notin DOMAIN r.buy_orders
        /\ original_ref \notin DOMAIN r.sell_orders
        /\ new_ref \in DOMAIN orders_after
        /\ orders_after[new_ref].price = new_price
        /\ orders_after[new_ref].shares = new_shares
        /\ new_price # old.price =>
              /\ LevelVolume(levels_after, old.price) = reduced
              /\ reduced = 0 => old.price \notin DOMAIN levels_after
        /\ Shows(r.writer[Len(r.writer)], r)

\* C7: in every reachable book, a Replace of a live original_ref by another
\* reference writes exactly one row, leaves original_ref in neither orders
\* map and new_ref live on the original order's side with the new price and
\* shares, reduces the old level by the old order's shares (pruning it at
\* zero), and the row shows the book after the Replace.
C7_ReplaceMovesOrder ==
    Accepting =>
        \A original_ref \in Refs, new_ref \in Refs, new_shares \in Shares,
           new_price \in Prices :
            (Live(original_ref) /\ new_ref # original_ref) =>
                \A r \in {handle_message(Book, Ch("U"),
                              OrderReplacePayload(34300, original_ref, new_ref,
                                                  new_shares, new_price),
                              34300)} :
                    ReplaceEffect(original_ref, new_ref, new_shares,
                                  new_price, r)

\* r has the orders, the levels, the rows and the update count of the
\* current book.
SameBook(r) ==
    /\ r.buy_orders = buy_orders
    /\ r.sell_orders = sell_orders
    /\ r.buy_price_map = buy_price_map
    /\ r.sell_price_map = sell_price_map
    /\ r.writer = writer
    /\ r.update_count = update_count

\* The references tried: those of the feed and one the feed never adds.
AnyRefs == Refs \cup {3}

\* The handler took the message, returned ok and left the book as it is.
Ignored(r) ==
    /\ r.result = "ok"
    /\ SameBook(r)
    /\ r.message_count = message_count + 1

\* C8: in every reachable book, an E, C, X, D or U message whose reference
\* (original_ref for U) is in neither orders map returns ok, changes no
\* orders map and no level map and writes no row; a Replace of an unknown
\* original_ref does not insert the new order.
C8_AbsentReferenceIgnored ==
    Accepting =>
        \A ref \in AnyRefs :
            ~Live(ref) =>
                /\ \A tag \in {Ch("E"), Ch("C"), Ch("X")}, amount \in Shares :
                      Ignored(handle_message(Book, tag,
                                  DecrementPayload(tag, 34300, ref, amount),
                                  34300))
                /\ Ignored(handle_message(Book, Ch("D"),
                               OrderDeletePayload(34300, ref), 34300))
                /\ \A new_ref \in AnyRefs, new_shares \in Shares,
                      new_price \in Prices :
                      \A r \in {handle_message(Book, Ch("U"),
                                    OrderReplacePayload(34300, ref, new_ref,
                                        new_shares, new_price), 34300)} :
                          /\ Ignored(r)
                          /\ ~Live(new_ref) =>
                                /\ new_ref \notin DOMAIN r.buy_orders
                                /\ new_ref \notin DOMAIN r.sell_orders

\* A book with reference 1 live and reference 2 absent, on which a Replace
\* of 2 by 3 and a Cancel of 2 are taken and leave the book as it is.
C8_Witness ==
    /\ Accepting
    /\ Live(1)
    /\ ~Live(2)
    /\ Ignored(handle_message(Book, Ch("U"),
                   OrderReplacePayload(34300, 2, 3, 1, 500000), 34300))
    /\ Ignored(handle_message(Book, Ch("X"),
                   OrderCancelPayload(34300, 2, 1), 34300))

\* C9: in every reachable book, an A or F message whose symbol differs from
\* the configured one in any byte leaves the orders maps, the level maps
\* and the rows unchanged and advances message_count only; a run without
\* an applied event has an empty book.
C9_OtherSymbolIgnored ==
    /\ Accepting =>
          \A stock \in Stocks \ {symbol}, ref \in Refs, side \in SideBytes,
             shares \in Shares, price \in Prices :
              /\ Ignored(handle_message(Book, Ch("A"),
                             AddOrderPayload(34300, ref, side, shares, stock,
                                             price), 34300))
              /\ Ignored(handle_message(Book, Ch("F"),
                             AddOrderWithMpidPayload(34300, ref, side, shares,
                                                     stock, price), 34300))
    /\ Len(applied) = 0 =>
          /\ DOMAIN buy_orders = {}
          /\ DOMAIN sell_orders = {}
          /\ DOMAIN buy_price_map = {}
          /\ DOMAIN sell_price_map = {}

\* A book with one live order on which an Add whose symbol differs from the
\* configured one in the last byte only is taken and changes nothing.
C9_Witness ==
    /\ Accepting
    /\ Live(1)
    /\ ~Live(2)
    /\ Ignored(handle_message(Book, Ch("A"),
                   AddOrderPayload(34300, 2, Ch("B"), 1,
                                   [symbol EXCEPT ![8] = Ch("X")], 500000),
                   34300))

\* r and q have the same orders, levels and rows.
SameState(r, q) ==
    /\ r.buy_orders = q.buy_orders
    /\ r.sell_orders = q.sell_orders
    /\ r.buy_price_map = q.buy_price_map
    /\ r.sell_price_map = q.sell_price_map
    /\ r.writer = q.writer

\* C10: in every reachable book, a Delete of a reference in neither orders
\* map leaves the orders maps, the level maps and the rows unchanged, and
\* Delete(r) followed by Delete(r) leaves the book state and the rows of a
\* single Delete(r).
C10_DeleteIdempotent ==
    Accepting =>
        \A ref \in AnyRefs :
            \A once \in {handle_message(Book, Ch("D"),
                             OrderDeletePayload(34300, ref), 34300)} :
                /\ ~Live(ref) => Ignored(once)
                /\ once.result = "ok" =>
                      \A twice \in {handle_message(once, Ch("D"),
                                        OrderDeletePayload(34301, ref),
                                        34301)} :
                          /\ twice.result = "ok"
                          /\ SameState(twice, once)

\* r has the orders maps and the level maps of the current book.
SameMaps(r) ==
    /\ r.buy_orders = buy_orders
    /\ r.sell_orders = sell_orders
    /\ r.buy_price_map = buy_price_map
    /\ r.sell_price_map = sell_price_map

\* C11: in every reachable book, an Add for the configured symbol of any
\* reference, side, shares and price followed at once by a Delete of that
\* reference returns ok twice, leaves the orders maps and the level maps as
\* they were before the Add, and writes exactly two rows.
C11_AddDeleteRoundTrip ==
    Accepting =>
        \A ref \in Refs, side \in SideBytes, shares \in Shares,
           price \in Prices :
            \A added \in {handle_message(Book, Ch("A"),
                              AddOrderPayload(34300, ref, side, shares, symbol,
                                              price), 34300)} :
                \A deleted \in {handle_message(added, Ch("D"),
                                    OrderDeletePayload(34301, ref), 34301)} :
                    /\ added.result = "ok"
                    /\ deleted.result = "ok"
                    /\ SameMaps(deleted)
                    /\ Len(deleted.writer) = Len(writer) + 2

\* Every live order of `orders` has its price in price_map with a volume
\* of at least its shares.
LevelsCover(orders, price_map) ==
    \A ref \in DOMAIN orders :
        /\ orders[ref].price \in DOMAIN price_map
        /\ price_map[orders[ref].price] >= orders[ref].shares

\* C12: after every event, on each side every live order's price is a key
\* of the side's level map and the level's volume is at least the order's
\* shares.
C12_LevelCoversEveryOrder ==
    status = "running" =>
        /\ LevelsCover(buy_orders, buy_price_map)
        /\ LevelsCover(sell_orders, sell_price_map)

\* C13: after every event, every key of the two level maps has a volume
\* greater than 0.
C13_NoZeroVolumeLevel ==
    status = "running" =>
        /\ \A p \in DOMAIN buy_price_map : buy_price_map[p] > 0
        /\ \A p \in DOMAIN sell_price_map : sell_price_map[p] > 0

\* C14: after every event, every order stored in the two orders maps has
\* shares greater than 0.
C14_NoZeroShareOrder ==
    status = "running" =>
        /\ \A ref \in DOMAIN buy_orders : buy_orders[ref].shares > 0
        /\ \A ref \in DOMAIN sell_orders : sell_orders[ref].shares > 0

\* C15: after every event, no reference number is a key of both orders
\* maps.
C15_SidesDisjoint ==
    status = "running" =>
        DOMAIN buy_orders \cap DOMAIN sell_orders = {}

(* The entries of a row. *)

\* The price and the volume a row shows at depth i of a side, and whether
\* the entry is padding.
EntryPrice(row, side, i) ==
    IF side = "Buy" THEN row.cols[i].bid_int * 10000 + row.cols[i].bid_dec
                  ELSE row.cols[i].ask_int * 10000 + row.cols[i].ask_dec

EntryVolume(row, side, i) ==
    IF side = "Buy" THEN row.cols[i].bid_vol ELSE row.cols[i].ask_vol

IsPadding(row, side, i) ==
    EntryPrice(row, side, i) = 0 /\ EntryVolume(row, side, i) = 0

RealEntries(row, side) ==
    { i \in DOMAIN row.cols : ~IsPadding(row, side, i) }

\* The price levels of a side of the book.
SideLevels(side) ==
    IF side = "Buy" THEN Book.buy_price_map ELSE Book.sell_price_map

\* C16: in every row the real bid entries are in strictly descending price
\* order and the real ask entries in strictly ascending price order, so no
\* price repeats on a side, and the padding entries come after all the
\* real ones: with k the number of levels shown, entries 1..k are levels of
\* the book in strict order and entries k+1..10 are {0, 0}.
C16_RowSidesSorted ==
    (status = "running" /\ Len(Rows) > 0) =>
        \A side \in {"Buy", "Sell"} :
            LET row == Rows[Len(Rows)]
                k == Min2(Len(row.cols), Cardinality(DOMAIN SideLevels(side)))
            IN  /\ \A i \in 1..k :
                       EntryPrice(row, side, i) \in DOMAIN SideLevels(side)
                /\ \A i \in 1..(k - 1) :
                       IF side = "Buy"
                       THEN EntryPrice(row, side, i)
                                > EntryPrice(row, side, i + 1)
                       ELSE EntryPrice(row, side, i)
                                < EntryPrice(row, side, i + 1)
                /\ \A i \in (k + 1)..Len(row.cols) : IsPadding(row, side, i)

\* A row written after a bid above the whole ladder arrived: ten real bids,
\* the new price first, and a shorter ask side followed by padding.
C16_Witness ==
    /\ count > 0 /\ Len(Rows) > 0
    /\ LET row == Rows[Len(Rows)]
       IN  /\ RealEntries(row, "Buy") = 1..MAX_BOOK_DEPTH
           /\ EntryPrice(row, "Buy", 1) = LadderPrice(MaxLevels + 1)
           /\ EntryPrice(row, "Buy", 2) = LadderPrice(MaxLevels)
           /\ RealEntries(row, "Sell") = 1..(MAX_BOOK_DEPTH - 1)

\* The i-th highest and the i-th lowest key of a set of prices.
Highest(S, i) == CHOOSE k \in S : Cardinality({ j \in S : j > k }) = i - 1

Lowest(S, i) == CHOOSE k \in S : Cardinality({ j \in S : j < k }) = i - 1

\* C17: a row has exactly 10 bid and 10 ask entries; entry i of the bids is
\* the i-th highest key of levels[Buy] with that level's volume, entry i of
\* the asks the i-th lowest key of levels[Sell] with its volume, and the
\* entries past the number of levels are {0, 0}; a level beyond the tenth
\* is in no entry.
C17_RowIsTopOfBook ==
    (status = "running" /\ Len(Rows) > 0) =>
        LET row == Rows[Len(Rows)]
            bid_keys == DOMAIN Book.buy_price_map
            ask_keys == DOMAIN Book.sell_price_map
        IN  /\ DOMAIN row.cols = 1..10
            /\ \A i \in 1..10 :
                /\ IF i <= Cardinality(bid_keys)
                   THEN /\ EntryPrice(row, "Buy", i) = Highest(bid_keys, i)
                        /\ EntryVolume(row, "Buy", i)
                               = Book.buy_price_map[Highest(bid_keys, i)]
                   ELSE IsPadding(row, "Buy", i)
                /\ IF i <= Cardinality(ask_keys)
                   THEN /\ EntryPrice(row, "Sell", i) = Lowest(ask_keys, i)
                        /\ EntryVolume(row, "Sell", i)
                               = Book.sell_price_map[Lowest(ask_keys, i)]
                   ELSE IsPadding(row, "Sell", i)

\* A book with more than ten ask levels and a single bid level after a
\* message: the row ends at the tenth lowest ask and pads the bids from the
\* second entry on.
C17_Witness ==
    /\ status = "running" /\ count > 0 /\ Len(Rows) > 0
    /\ Cardinality(DOMAIN Book.sell_price_map) > 10
    /\ Cardinality(DOMAIN Book.buy_price_map) = 1
    /\ LET row == Rows[Len(Rows)]
       IN  /\ EntryPrice(row, "Sell", 10) = Lowest(DOMAIN Book.sell_price_map, 10)
           /\ EntryPrice(row, "Sell", 10) < Highest(DOMAIN Book.sell_price_map, 1)
           /\ IsPadding(row, "Buy", 2)

\* The sum of the volumes of a set of levels of a price map.
RECURSIVE SumLevels(_, _)
SumLevels(price_map, S) ==
    IF S = {} THEN 0
    ELSE LET p == CHOOSE q \in S : TRUE
         IN  price_map[p] + SumLevels(price_map, S \ {p})

\* The u32 sum the writer uses for a side of fewer than MAX_BOOK_DEPTH
\* levels.
UsedSum(price_map) == SumLevels(price_map, DOMAIN price_map) % U32Modulus

\* C18: the imbalance of every row lies in [-1, +1], and it is 0 when the
\* bid and ask volume sums used are both 0.
C18_ImbalanceInRange ==
    (status = "running" /\ Len(Rows) > 0) =>
        LET imb == Rows[Len(Rows)].imbalance
        IN  /\ imb >= -1000000 /\ imb <= 1000000
            /\ (UsedSum(Book.buy_price_map) = 0
                    /\ UsedSum(Book.sell_price_map) = 0) => imb = 0

\* A row whose imbalance is strictly between -1 and 0: both sides hold
\* volume and the asks outweigh the bids.
C18_Witness ==
    /\ status = "running" /\ Len(Rows) > 0
    /\ Rows[Len(Rows)].imbalance < 0
    /\ Rows[Len(Rows)].imbalance > -1000000
    /\ UsedSum(Book.buy_price_map) > 0

\* The sum of the volumes a row shows on a side, as an integer.
RECURSIVE RowSum(_, _, _)
RowSum(row, side, n) ==
    IF n = 0 THEN 0 ELSE EntryVolume(row, side, n) + RowSum(row, side, n - 1)

\* C19: the imbalance of a row is (B - A) / (B + A), to the 6 digits
\* printed, where B and A are the integer sums of the row's 10 bid and 10
\* ask volumes, not reduced modulo 2^32; and summing the volumes never
\* aborts the run.
C19_ImbalanceOfTrueSums ==
    /\ ~calculate_imbalance(get_top_bids(Book, MAX_BOOK_DEPTH),
                            get_top_asks(Book, MAX_BOOK_DEPTH)).panic
    /\ (status = "running" /\ Len(Rows) > 0) =>
           LET row == Rows[Len(Rows)]
               B == RowSum(row, "Buy", Len(row.cols))
               A == RowSum(row, "Sell", Len(row.cols))
           IN  IF B + A = 0 THEN row.imbalance = 0
               ELSE row.imbalance
                        = (2 * (B - A) * 1000000 + (B + A)) \div (2 * (B + A))

\* The best bid and the best ask of the book, 0 for an empty side.
BestBid ==
    IF DOMAIN Book.buy_price_map = {} THEN 0
    ELSE Highest(DOMAIN Book.buy_price_map, 1)

BestAsk ==
    IF DOMAIN Book.sell_price_map = {} THEN 0
    ELSE Lowest(DOMAIN Book.sell_price_map, 1)

\* C20 as stated: in every row the mid price times 20000 equals best bid
\* plus best ask (the printed mid is in units of 0.0001, so twice its
\* number of units is the mid price times 20000).
C20_MidTimes20000IsSum ==
    (status = "running" /\ Len(Rows) > 0) =>
        2 * Rows[Len(Rows)].mid_price = BestBid + BestAsk

\* C20, amended: the mid price of a row is (best bid + best ask) / 20000
\* written with 4 fractional digits, so the written value times 20000
\* equals best bid + best ask when that sum is even and differs from it by
\* exactly 1 when it is odd; an empty side counts as 0.
C20_MidIsRoundedMean ==
    (status = "running" /\ Len(Rows) > 0) =>
        LET twice == 2 * Rows[Len(Rows)].mid_price
            sum == BestBid + BestAsk
        IN  IF sum % 2 = 0 THEN twice = sum
            ELSE twice = sum - 1 \/ twice = sum + 1

\* A row of a book with both sides present whose best prices have an odd
\* sum, and one printed upwards.
C20_Witness ==
    /\ status = "running" /\ count > 0 /\ Len(Rows) > 0
    /\ BestBid > 0 /\ BestAsk > 0
    /\ (BestBid + BestAsk) % 2 = 1
    /\ 2 * Rows[Len(Rows)].mid_price = BestBid + BestAsk + 1

\* C26: in every reachable book a Trade message, for the configured symbol
\* or any other, returns ok and leaves both orders maps, both level maps
\* and the rows as they are.
C26_TradeChangesNothing ==
    Accepting =>
        \A stock \in Stocks, ref \in Refs, shares \in Shares,
           price \in Prices :
            Ignored(handle_message(Book, Ch("P"),
                        TradePayload(34300, ref, Ch("B"), shares, stock,
                                     price), 34300))

\* A book with a live Buy order at 50.0000 on which a Trade of that
\* reference, side, symbol and price is taken and changes nothing.
C26_Witness ==
    /\ Accepting
    /\ 1 \in DOMAIN buy_orders
    /\ buy_orders[1].price = 500000
    /\ buy_orders[1].shares = 1
    /\ Ignored(handle_message(Book, Ch("P"),
                   TradePayload(34300, 1, Ch("B"), 1, symbol, 500000),
                   34300))

\* The execution prices tried in C messages.
ExecutionPrices == Prices \cup {0}

\* C27: in every reachable book and for every reference and amount, an
\* Execute, an Execute-with-price (at any execution price) and a Cancel
\* with the same timestamp give the same book: the same orders maps, level
\* maps, rows, counters and result.
C27_DecrementsAgree ==
    Accepting =>
        \A ref \in AnyRefs, amount \in Amounts :
            \A e \in {handle_message(Book, Ch("E"),
                          OrderExecutedPayload(34300, ref, amount), 34300)} :
                /\ \A execution_price \in ExecutionPrices :
                      handle_message(Book, Ch("C"),
                          OrderExecutedWithPricePayload(34300, ref, amount,
                              execution_price), 34300) = e
                /\ handle_message(Book, Ch("X"),
                       OrderCancelPayload(34300, ref, amount), 34300) = e

\* A book with a live order of more than one share at 50.0000 on which an
\* Execute-with-price of one share at 49.9900 writes a row and leaves the
\* order at its price, as the Execute of one share does.
C27_Witness ==
    /\ Accepting
    /\ 1 \in DOMAIN buy_orders
    /\ buy_orders[1].price = 500000
    /\ buy_orders[1].shares > 1
    /\ \E c \in {handle_message(Book, Ch("C"),
                     OrderExecutedWithPricePayload(34300, 1, 1, 499900),
                     34300)} :
          /\ c.buy_orders[1].price = 500000
          /\ c.buy_orders[1].shares = buy_orders[1].shares - 1
          /\ Len(c.writer) = Len(writer) + 1
          /\ c = handle_message(Book, Ch("E"),
                     OrderExecutedPayload(34300, 1, 1), 34300)

\* The Sell maps of r are those of the current book.
SameSellSide(r) ==
    r.sell_orders = sell_orders /\ r.sell_price_map = sell_price_map

\* The Buy maps of r are those of the current book.
SameBuySide(r) ==
    r.buy_orders = buy_orders /\ r.buy_price_map = buy_price_map

\* The E, C, X, D and U messages for a reference: every decrement with
\* every amount, the Delete, and Replaces by a new and by a used reference.
EventsOn(ref) ==
    { << tag, DecrementPayload(tag, 34300, ref, amount) >> :
        tag \in {Ch("E"), Ch("C"), Ch("X")}, amount \in Amounts }
    \cup { << Ch("D"), OrderDeletePayload(34300, ref) >> }
    \cup { << Ch("U"), OrderReplacePayload(34300, ref, new_ref, 1, price) >> :
             new_ref \in AnyRefs, price \in Prices }

\* C28: in every reachable book, an E, C, X, D or U event whose reference
\* is in the Buy orders map writes a row and leaves the Sell orders map and
\* the Sell level map as they are, also when the Sell map holds that
\* reference too (a Delete then removes the Buy order and keeps the Sell
\* order); the Sell maps change only when the reference is not in the Buy
\* map, and then the Buy maps are left as they are.
C28_BuyLookedUpFirst ==
    Accepting =>
        \A ref \in Refs : \A ev \in EventsOn(ref) :
            \A r \in {handle_message(Book, ev[1], ev[2], 34300)} :
                /\ ref \in DOMAIN buy_orders =>
                      /\ SameSellSide(r)
                      /\ ev[1] = Ch("D") => ref \notin DOMAIN r.buy_orders
                      /\ r.result = "ok" => Len(r.writer) = Len(writer) + 1
                /\ (ref \notin DOMAIN buy_orders
                        /\ ref \in DOMAIN sell_orders) =>
                      /\ SameBuySide(r)
                      /\ ev[1] = Ch("D") => ref \notin DOMAIN r.sell_orders

\* A book that holds reference 1 in both orders maps, on which a Delete of
\* 1 removes the Buy order and keeps the Sell order.
C28_Witness ==
    /\ Accepting
    /\ 1 \in DOMAIN buy_orders
    /\ 1 \in DOMAIN sell_orders
    /\ \E r \in {handle_message(Book, Ch("D"),
                     OrderDeletePayload(34300, 1), 34300)} :
          /\ 1 \notin DOMAIN r.buy_orders
          /\ 1 \in DOMAIN r.sell_orders
          /\ r.sell_orders[1] = sell_orders[1]

\* The buy/sell indicator bytes tried: 'B', 'S', 'b', a space and 0.
IndicatorBytes == {Ch("B"), Ch("S"), 98, 32, 0}

\* The order an Add with these fields stores.
AddedOrder(ref, byte, shares, price, timestamp) ==
    [ ref_number |-> ref, timestamp |-> timestamp, price |-> price,
      shares |-> shares,
      side |-> IF byte = 66 THEN "Buy" ELSE "Sell" ]

\* C29: in every reachable book, an A or F message for the configured
\* symbol that returns ok stores its order in the Buy orders map, adds its
\* price to the Buy level map and leaves the Sell maps alone when the
\* indicator byte is 'B', and does the same with the sides exchanged for
\* any other byte; and every stored order's side field names the map that
\* holds it.
C29_SideDecoding ==
    /\ \A ref \in DOMAIN buy_orders : buy_orders[ref].side = "Buy"
    /\ \A ref \in DOMAIN sell_orders : sell_orders[ref].side = "Sell"
    /\ Accepting =>
          \A tag \in {Ch("A"), Ch("F")}, byte \in IndicatorBytes,
             ref \in Refs, price \in Prices :
              \A r \in {handle_message(Book, tag,
                            IF tag = Ch("A")
                            THEN AddOrderPayload(34300, ref, byte, 1, symbol,
                                                 price)
                            ELSE AddOrderWithMpidPayload(34300, ref, byte, 1,
                                                         symbol, price),
                            34300)} :
                  r.result = "ok" =>
                      IF byte = 66
                      THEN /\ ref \in DOMAIN r.buy_orders
                           /\ r.buy_orders[ref]
                                  = AddedOrder(ref, byte, 1, price, 34300)
                           /\ price \in DOMAIN r.buy_price_map
                           /\ SameSellSide(r)
                      ELSE /\ ref \in DOMAIN r.sell_orders
                           /\ r.sell_orders[ref]
                                  = AddedOrder(ref, byte, 1, price, 34300)
                           /\ price \in DOMAIN r.sell_price_map
                           /\ SameBuySide(r)

\* An empty book on which an Add with the indicator 'b' is stored as a
\* Sell order.
C29_Witness ==
    /\ Accepting
    /\ DOMAIN buy_orders = {} /\ DOMAIN sell_orders = {}
    /\ \E r \in {handle_message(Book, Ch("A"),
                     AddOrderPayload(34300, 1, 98, 1, symbol, 500000),
                     34300)} :
          /\ r.result = "ok"
          /\ DOMAIN r.sell_orders = {1}
          /\ r.sell_orders[1].side = "Sell"
          /\ DOMAIN r.buy_orders = {}

\* orders_after differs from orders_before at most in the order ref, which
\* is removed or has other shares only.
OnlyOrderChanged(ref, orders_before, orders_after) ==
    /\ DOMAIN orders_after \subseteq DOMAIN orders_before
    /\ DOMAIN orders_before \ DOMAIN orders_after \subseteq {ref}
    /\ \A o \in DOMAIN orders_after :
          IF o = ref
          THEN orders_after[o]
                   = [orders_before[o] EXCEPT !.shares = orders_after[o].shares]
          ELSE orders_after[o] = orders_before[o]

\* levels_after differs from levels_before at most in the level at price.
OnlyLevelChanged(price, levels_before, levels_after) ==
    \A q \in (DOMAIN levels_before \cup DOMAIN levels_after) \ {price} :
        /\ q \in DOMAIN levels_before
        /\ q \in DOMAIN levels_after
        /\ levels_after[q] = levels_before[q]

\* C30: in every reachable book, an E, C, X or D event for a live reference
\* changes only that order (its shares or its presence) and the level at
\* its price on its side: the other orders of both sides, the other levels
\* of its side and the level map of the opposite side stay as they are,
\* and the order keeps its price, side and reference number.
C30_DecrementFrame ==
    Accepting =>
        \A ref \in Refs : Live(ref) =>
            \A ev \in { x \in EventsOn(ref) : x[1] # Ch("U") } :
                \A r \in {handle_message(Book, ev[1], ev[2], 34300)} :
                    IF ref \in DOMAIN buy_orders
                    THEN /\ OnlyOrderChanged(ref, buy_orders, r.buy_orders)
                         /\ OnlyLevelChanged(buy_orders[ref].price,
                                buy_price_map, r.buy_price_map)
                         /\ SameSellSide(r)
                    ELSE /\ OnlyOrderChanged(ref, sell_orders, r.sell_orders)
                         /\ OnlyLevelChanged(sell_orders[ref].price,
                                sell_price_map, r.sell_price_map)
                         /\ SameBuySide(r)

\* A book with two Buy orders at two prices, on which a Delete of the
\* order of one Buy level removes that order and that level and nothing
\* else.
C30_Witness ==
    /\ Accepting
    /\ DOMAIN buy_orders = {1, 2}
    /\ DOMAIN buy_price_map = {499900, 500000}
    /\ buy_orders[1].price # buy_orders[2].price
    /\ \E r \in {handle_message(Book, Ch("D"),
                     OrderDeletePayload(34300, 1), 34300)} :
          /\ DOMAIN r.buy_orders = {2}
          /\ DOMAIN r.buy_price_map = {buy_orders[2].price}
          /\ r.buy_orders[2] = buy_orders[2]

\* A complete data line and an incomplete one.
IsRow(line) == DOMAIN line = {"timestamp", "cols", "mid_price", "imbalance"}

IsPartialLine(line) == DOMAIN line = {"timestamp", "partial"}

\* The run ended with an I/O error in the write of a row.
WriteFailed ==
    status = "failed" /\ sink_fault.at \in {"write", "midline"}

UnflushedRows == Len(Rows) - (IF flushed = 0 THEN 0 ELSE flushed - 1)

\* C22: while no I/O error has occurred, right after the k-th row with
\* k mod 100 = 0 the header and the rows 1..k have been flushed, at most 99
\* written rows are unflushed at any time, and after finalize returned ok
\* every written line has been flushed.
C22_FlushEveryHundredRows ==
    status # "failed" =>
        /\ (update_count > 0 /\ update_count % 100 = 0) =>
               /\ Len(Rows) = update_count
               /\ flushed = Len(writer)
        /\ UnflushedRows <= 99
        /\ status = "done" => flushed = Len(writer)

\* The run after 199 rows: the first hundred flushed with the header, the
\* other 99 not yet.
C22_Witness ==
    /\ status = "running"
    /\ update_count = 199
    /\ Len(Rows) = 199
    /\ flushed = 101
    /\ UnflushedRows = 99

\* One step of main, as C23 has it: the step in which the write of a row
\* or the flush after it fails ends the run as failed and does not count
\* the frame; so does a finalize whose flush fails; a failed run takes no
\* further step, so no later frame is dispatched, the book and the rows
\* stay as the failing event left them and finalize is not called.
C23_Step ==
    /\ status # "failed"
    /\ (update_count' # update_count
            /\ sink_fault.at \in {"write", "midline", "flush"}
            /\ sink_fault.row = update_count') =>
           /\ status' = "failed"
           /\ count' = count
    /\ (status = "returned" /\ sink_fault.at = "finalize") =>
           /\ status' = "failed"
           /\ flushed' = flushed
    /\ status' = "done" => sink_fault.at # "finalize"

\* C23: an I/O error of a snapshot write or of a flush ends the run at the
\* failing event.
C23_IoErrorEndsRun == [][C23_Step]_vars

\* A run whose flush after the hundredth row failed: it stopped there with
\* frames left in the buffer and nothing flushed.
C23_Witness ==
    /\ status = "failed"
    /\ sink_fault = [at |-> "flush", row |-> 100]
    /\ update_count = 100
    /\ Len(Rows) = 100
    /\ flushed = 0
    /\ offset + MSG_HEADER_SIZE <= Len(data)

\* The length field of the frame at the cursor.
LengthAt(off) == read_u16_be(data, off)

\* A header fits at the cursor, and the frame (2 + len bytes) fits.
FrameFits(off) ==
    /\ off + MSG_HEADER_SIZE <= Len(data)
    /\ off + 2 + LengthAt(off) <= Len(data)

\* One step of process_itch_file, as C24 has it: it does not abort; an
\* iteration that completes moves the cursor forward by exactly 2 + len;
\* the loop is left only at a cursor where the header or the whole frame
\* no longer fits.
C24_Step ==
    status = "running" =>
        /\ status' # "panicked"
        /\ status' = "running" =>
               /\ offset' = offset + 2 + LengthAt(offset)
               /\ offset' > offset
        /\ status' = "returned" => ~FrameFits(offset)

\* C24: process_itch_file walks every finite buffer to the first cursor
\* where a header or a whole frame no longer fits, advancing by 2 + len.
C24_WalkAdvancesToFirstMisfit == [][C24_Step]_vars

\* One step of process_itch_file on a frame that lies inside the buffer,
\* has a type byte (len >= 1) and a tag other than A, F, E, C, X, D, U, P:
\* the orders maps, the level maps and the output stay as they are and the
\* run does not abort; when bytes follow the frame the cursor is at the
\* first of them and the walk goes on.
C25_Step ==
    (/\ status = "running"
     /\ FrameFits(offset)
     /\ LengthAt(offset) >= 1
     /\ data[offset + 2 + 1] \notin InScopeTags) =>
        /\ buy_orders' = buy_orders
        /\ sell_orders' = sell_orders
        /\ buy_price_map' = buy_price_map
        /\ sell_price_map' = sell_price_map
        /\ writer' = writer
        /\ status' \in {"running", "returned"}
        /\ offset + 2 + LengthAt(offset) < Len(data) =>
               /\ status' = "running"
               /\ offset' = offset + 2 + LengthAt(offset)

\* C25: a frame with an unrecognized or an administrative tag changes
\* nothing and is skipped whole.
C25_OtherTagsSkipped == [][C25_Step]_vars

\* A buffer that starts with a frame of the unassigned tag 'Z', a System
\* Event frame and an Add: the Add was decoded and applied after the two
\* were skipped, and only the System Event reached handle_message.
C25_Witness ==
    /\ status = "running"
    /\ count = 3
    /\ message_count = 2
    /\ Len(Rows) = 1
    /\ DOMAIN buy_orders = {1}
    /\ SubSeq(data, 1, offset)
           = Frame(Ch("Z"), Prefix(34208))
             \o Frame(Ch("S"), SystemEventPayload(34207))
             \o Frame(Ch("A"),
                      AddOrderPayload(34201, 1, Ch("B"), 1, symbol, 500000))

\* The book has no level other than the one of this side and price, so that
\* the sums of calculate_imbalance are that level's volume alone.
OnlyLevel(byte, price) ==
    IF byte = Ch("B")
    THEN DOMAIN buy_price_map \subseteq {price} /\ DOMAIN sell_price_map = {}
    ELSE DOMAIN sell_price_map \subseteq {price} /\ DOMAIN buy_price_map = {}

\* C31: in every reachable book whose only level is the one the message
\* adds to, an A or F message for the configured symbol does not abort, and
\* leaves that level at the volume it had before plus the order's shares,
\* the sum taken in the integers.
C31_LevelAddNeverOverflows ==
    Accepting =>
        \A tag \in {Ch("A"), Ch("F")}, byte \in SideBytes, shares \in Shares,
           price \in Prices :
            OnlyLevel(byte, price) =>
                \A r \in {handle_message(Book, tag,
                              IF tag = Ch("A")
                              THEN AddOrderPayload(34300, 1, byte, shares,
                                                   symbol, price)
                              ELSE AddOrderWithMpidPayload(34300, 1, byte,
                                                   shares, symbol, price),
                              34300)} :
                    /\ r.result # "panic"
                    /\ r.result = "ok" =>
                          IF byte = Ch("B")
                          THEN LevelVolume(r.buy_price_map, price)
                                 = LevelVolume(buy_price_map, price) + shares
                          ELSE LevelVolume(r.sell_price_map, price)
                                 = LevelVolume(sell_price_map, price) + shares

\* The row messages of a sequence of messages, in order.
RowsOf(messages) == SelectSeq(messages, LAMBDA m : m.type = "row")

\* The number of rows among the first n messages the reader sent.
RowsSentBefore(n) == Len(RowsOf(SubSeq(sent, 1, n)))

\* C32: the first message the reader sends is the metadata message and
\* every later one is a row; and on every connection a row put on the socket
\* has the metadata message before it.
C32_MetadataBeforeRows ==
    /\ \A i \in 1..Len(sent) :
          sent[i].type = IF i = 1 THEN "metadata" ELSE "row"
    /\ \A c \in Connections :
          \A i \in 1..Len(clients[c].received) :
              clients[c].received[i].type = "row" =>
                  \E j \in 1..(i - 1) :
                      clients[c].received[j].type = "metadata"

\* The rows put on the socket of connection c are consecutive rows of the
\* file, the first being the first row sent after the subscribe.
GapFree(c) ==
    \A rows \in {RowsOf(clients[c].received)} :
        \A i \in 1..Len(rows) :
            rows[i].row = RowsSentBefore(clients[c].subscribed_at) + i

\* The receiver of connection c has been overtaken by the channel.
HasLagged(c) ==
    clients[c].state = "open"
        /\ recv(channel, clients[c].next).kind = "lagged"

\* A connection that has lagged gets nothing more: a step leaves it as it
\* is or closes it.
LaggedIsDisconnected ==
    \A c \in Connections :
        HasLagged(c) =>
            \/ clients'[c] = clients[c]
            \/ /\ clients'[c].state = "closed"
               /\ clients'[c].received = clients[c].received

\* A step that closes one connection leaves the reader, the channel and
\* every other connection as they are, and an open connection with a value
\* to receive and a socket that takes it gets that value.
DisconnectIsLocal ==
    /\ \A d \in Connections :
          (clients[d].state # "closed" /\ clients'[d].state = "closed") =>
              /\ reader' = reader
              /\ channel' = channel
              /\ \A c \in Connections \ {d} : clients'[c] = clients[c]
    /\ \A c \in Connections :
          \A got \in {recv(channel, clients[c].next)} :
              (clients[c].state = "open" /\ got.kind = "ok") =>
                  on_broadcast(clients[c], got, TRUE).received
                      = Append(clients[c].received,
                               channel[clients[c].next + 1])

\* C33: on every connection the rows put on the socket are a run of
\* consecutive rows of the file that starts with the first row sent after
\* the subscribe; a connection overtaken by the channel is closed without
\* receiving anything more; and the closing of one connection changes
\* neither the channel nor any other connection.
C33_RowsGapFree ==
    /\ [](\A c \in Connections : GapFree(c))
    /\ [][LaggedIsDisconnected /\ DisconnectIsLocal]_vars

\* Connection 1 was overtaken after its first message and closed, and
\* connection 2, which subscribed after two sends, is open and has received
\* the rows from the second to the last.
C33_Witness ==
    /\ clients[1].state = "closed"
    /\ Len(clients[1].received) = 1
    /\ clients[1].subscribed_at + 1 < clients[1].next
    /\ clients[2].state = "open"
    /\ clients[2].subscribed_at = 2
    /\ clients[2].received
          = [k \in 1..(MaxRows - 1) |-> RowMessage(k + 1)]

====
